---- MODULE Spec2Model ----
(***************************************************************************)
(* Ticket pipeline of ticket-backend: the Ticket state machine             *)
(* (app/models/ticket.py), the QueueManager (app/queues/manager.py), the   *)
(* repository and assignment tracker (app/storage/repository.py) and the   *)
(* HTTP handlers that drive them (app/routes/*.py).                        *)
(*                                                                         *)
(* Handlers are `async def` without an await before their return, so each  *)
(* one is one atomic step of the event loop.  The triage task created by   *)
(* an INBOX enqueue has one suspension point (the classifier call), hence  *)
(* two steps: TriageStart and TriageFinish.                                *)
(***************************************************************************)
EXTENDS Integers, Sequences, FiniteSets, TLC

\* ---------------------------------------------------------------- bounds
MaxTickets == 2          \* ticket ids available
MaxIngest == 1           \* tickets Spec and SpecDistribution ingest
MaxAudit == 3            \* audit entries under Spec
MaxAuditDistribution == 4 \* audit entries under SpecDistribution
MaxAuditQM == 3          \* audit entries under SpecQM
MaxAuditLock == 2        \* audit entries under SpecLock
MaxAuditPublish == 2     \* audit entries under SpecPublish
MaxAuditAutoClose == 3   \* audit entries under SpecAutoClose
MaxNow == 7              \* minutes the clock runs
MaxAuditClassifier == 5  \* audit entries under SpecClassifier
MaxAuditClaim == 4       \* audit entries under SpecClaim
MaxLimit == 3            \* the limits get_audit_log is asked for

\* ------------------------------------------------------------- enums
None == "None"
Absent == -1
NoTags == <<None>>   \* the tags key is missing (a tag list never holds None)

INBOX == "INBOX"
TRIAGE == "TRIAGE"
ASSIGNMENT == "ASSIGNMENT"
ACTIVE == "ACTIVE"
RESOLUTION == "RESOLUTION"

QueueType == {INBOX, TRIAGE, ASSIGNMENT, ACTIVE, RESOLUTION}

TicketStatus ==
  {"INBOX", "TRIAGING", "TRIAGE_PENDING", "ASSIGNED", "IN_PROGRESS", "RESOLVED", "CLOSED"}

TicketPriority == {"LOW", "MEDIUM", "HIGH", "CRITICAL"}

TicketCategory ==
  {"BILLING", "TECHNICAL_SUPPORT", "FEATURE_REQUEST", "BUG_REPORT", "ADMIN", "OTHER"}

VALID_TRANSITIONS(s) ==
  CASE s = "INBOX" -> {"TRIAGING", "TRIAGE_PENDING"}
    [] s = "TRIAGING" -> {"TRIAGE_PENDING", "ASSIGNED", "RESOLVED"}
    [] s = "TRIAGE_PENDING" -> {"ASSIGNED", "RESOLVED", "CLOSED"}
    [] s = "ASSIGNED" -> {"IN_PROGRESS", "RESOLVED", "INBOX", "CLOSED"}
    [] s = "IN_PROGRESS" -> {"RESOLVED", "ASSIGNED", "INBOX", "CLOSED"}
    [] s = "RESOLVED" -> {"IN_PROGRESS", "CLOSED"}
    [] s = "CLOSED" -> {"INBOX"}

QUEUE_STATUS_MAP(q) ==
  CASE q = INBOX -> "INBOX"
    [] q = TRIAGE -> "TRIAGE_PENDING"
    [] q = ASSIGNMENT -> "ASSIGNED"
    [] q = ACTIVE -> "IN_PROGRESS"
    [] q = RESOLUTION -> "RESOLVED"

\* ------------------------------------------------------------- domains
Ids == 1..MaxTickets
Agents == {"a1", "a2"}

VARIABLES
  tickets,           \* the Ticket objects ever created, by id; an object outlives its repository row
  repo,              \* TicketRepository._tickets: the ids stored
  queues,            \* QueueManager._queues: queue -> sequence of QueueEntry
  ticket_queue_map,  \* QueueManager._ticket_queue_map: id -> queue (None = no row)
  audit_log,         \* QueueManager._audit_log
  assignments,       \* AssignmentTracker._assignments: agent -> set of ids
  scheduled,         \* id -> triage tasks created by loop.create_task, not yet started
  inflight,          \* id -> triage tasks suspended in the classifier call
  now,               \* the clock, in minutes
  lock,              \* QueueManager._lock: held or free
  call,              \* the enqueue call the event loop is inside, None between calls
  connections,       \* ConnectionManager._connections: client id -> its WebSocketClient
  channel_subscribers, \* ConnectionManager._channel_subscribers: channel -> client ids
  cast,              \* the broadcast_event call in progress: its locals and what it wrote
  cast_b,            \* a second broadcast_event call, started while the first is suspended
  channel_cast,      \* the broadcast_to_channel call in progress
  sweep,             \* run_auto_close_task: asleep, or inside the loop of a pass
  claiming           \* agent -> its claim_ticket request: position and locals

vars ==
  <<tickets, repo, queues, ticket_queue_map, audit_log, assignments,
    scheduled, inflight, now, lock, call, connections, channel_subscribers, cast,
    cast_b, channel_cast, sweep, claiming>>

\* The subscription bus.
bus == <<connections, channel_subscribers, cast, cast_b, channel_cast>>

\* ------------------------------------------------------------- Ticket
\* ai_reasoning is a dict; its keys are the keys of the classifier's result.
\* A key that is missing holds None (Absent for the number).
EmptyReasoning ==
  [priority |-> None, category |-> None, confidence |-> Absent,
   suggested_assignee |-> None, tags |-> NoTags]

\* Ticket.create followed by __init__ defaults: status INBOX, queue INBOX.
Ticket_create(priority, tags) ==
  [status |-> "INBOX", current_queue |-> INBOX, assignee |-> None,
   suggested_assignee |-> None, priority |-> priority, category |-> None,
   tags |-> tags, ai_reasoning |-> EmptyReasoning, resolution_action |-> "NONE",
   title |-> None, created_at |-> now, updated_at |-> now]

touch(t) == [t EXCEPT !.updated_at = now]

can_transition_to(t, new_status) == new_status \in VALID_TRANSITIONS(t.status)

\* move_to_queue raises InvalidStateTransitionError exactly when this is FALSE.
move_to_queue_ok(t, q) == q = INBOX \/ can_transition_to(t, QUEUE_STATUS_MAP(q))

move_to_queue(t, q) ==
  IF q = INBOX
    THEN touch([t EXCEPT !.status = "INBOX", !.current_queue = q])
    ELSE touch([t EXCEPT !.status = QUEUE_STATUS_MAP(q), !.current_queue = q])

assign(t, assignee) ==
  IF t.status \in {"INBOX", "TRIAGE_PENDING"}
    THEN touch([t EXCEPT !.assignee = assignee, !.status = "ASSIGNED",
                         !.current_queue = ASSIGNMENT])
    ELSE touch([t EXCEPT !.assignee = assignee])

unassign(t) ==
  touch([t EXCEPT !.assignee = None, !.status = "INBOX", !.current_queue = INBOX])

update_priority(t, priority) == touch([t EXCEPT !.priority = priority])

update_status(t, status) == touch([t EXCEPT !.status = status])

update_title(t, title) == touch([t EXCEPT !.title = title])

set_category(t, category) == touch([t EXCEPT !.category = category])

\* dict.update: the keys the result carries overwrite, the others stay.
MergeReasoning(old, r) ==
  [priority |-> IF r.priority # None THEN r.priority ELSE old.priority,
   category |-> IF r.category # None THEN r.category ELSE old.category,
   confidence |-> IF r.confidence # Absent THEN r.confidence ELSE old.confidence,
   suggested_assignee |->
     IF r.suggested_assignee # None THEN r.suggested_assignee ELSE old.suggested_assignee,
   tags |-> IF r.tags # NoTags THEN r.tags ELSE old.tags]

log_reasoning(t, r) == touch([t EXCEPT !.ai_reasoning = MergeReasoning(t.ai_reasoning, r)])

set_suggested_assignee(t, assignee) == touch([t EXCEPT !.suggested_assignee = assignee])

\* mark_resolved raises InvalidStateTransitionError exactly when this is FALSE.
mark_resolved_ok(t) == can_transition_to(t, "RESOLVED")

mark_resolved(t, action) ==
  touch([t EXCEPT !.status = "RESOLVED", !.current_queue = RESOLUTION,
                  !.resolution_action = action])

\* close raises InvalidStateTransitionError exactly when this is FALSE.
close_ok(t) == t.status = "RESOLVED"

close(t) == touch([t EXCEPT !.status = "CLOSED"])

InSeq(x, s) == \E i \in 1..Len(s) : s[i] = x

add_tag(t, tag) ==
  IF InSeq(tag, t.tags) THEN t ELSE touch([t EXCEPT !.tags = Append(t.tags, tag)])

RECURSIVE add_tags(_, _)
add_tags(t, tagseq) ==
  IF tagseq = <<>> THEN t ELSE add_tags(add_tag(t, Head(tagseq)), Tail(tagseq))

clear_ai_data(t) ==
  touch([t EXCEPT !.ai_reasoning = EmptyReasoning, !.category = None,
                  !.priority = None, !.suggested_assignee = None])

\* to_dict evaluates self._priority.value: it raises when priority is None.
to_dict_ok(t) == t.priority # None

\* ------------------------------------------------------------- QueueManager
AgeBonusCap == 50

PriorityBase(priority) ==
  CASE priority = "LOW" -> 1
    [] priority = "MEDIUM" -> 2
    [] priority = "HIGH" -> 3
    [] priority = "CRITICAL" -> 4
    [] OTHER -> 2

Min(a, b) == IF a <= b THEN a ELSE b

\* age_seconds / 60 is the age in minutes, the unit of the clock.
calculate_priority_score(t) ==
  PriorityBase(t.priority) * 100 + Min(now - t.created_at, AgeBonusCap)

QueueEntry(id, t) ==
  [ticket_id |-> id, enqueued_at |-> now, priority_score |-> calculate_priority_score(t)]

\* Mutation: source and target queue written into each other's field.
AuditLogEntrySwapped(id, from_queue, to_queue, reason, actor) ==
  [timestamp |-> now, ticket_id |-> id, from_queue |-> to_queue,
   to_queue |-> from_queue, reason |-> reason, actor |-> actor]

AuditLogEntry(id, from_queue, to_queue, reason, actor) ==
  [timestamp |-> now, ticket_id |-> id, from_queue |-> from_queue,
   to_queue |-> to_queue, reason |-> reason, actor |-> actor]

\* A reason is a text and, for the two triage reasons, the confidence formatted into it.
Reason(text) == [text |-> text, conf |-> Absent]

\* Index of the first entry of s for ticket id, 0 when there is none.
FirstIndex(s, id) ==
  IF \E i \in 1..Len(s) : s[i].ticket_id = id
    THEN CHOOSE i \in 1..Len(s) :
           s[i].ticket_id = id /\ \A j \in 1..(i - 1) : s[j].ticket_id # id
    ELSE 0

\* deque.remove(x): drops the first element equal to x.
FirstEqual(s, e) ==
  CHOOSE i \in 1..Len(s) : s[i] = e /\ \A j \in 1..(i - 1) : s[j] # e

RemoveAt(s, i) == SubSeq(s, 1, i - 1) \o SubSeq(s, i + 1, Len(s))

HasEntry(q, id) == FirstIndex(queues[q], id) # 0

\* Mutation: a triage task for an enqueue into any queue.
SpawnsTriageAnyQueue(queue) == queue \in QueueType

\* enqueue creates the triage task exactly for this queue.
SpawnsTriage(queue) == queue = INBOX

\* The state enqueue leaves, and the position it returns.
enqueue(id, t, queue, reason, actor) ==
  [queues |-> [queues EXCEPT ![queue] = Append(@, QueueEntry(id, t))],
   map |-> [ticket_queue_map EXCEPT ![id] = queue],
   audit |-> Append(audit_log, AuditLogEntry(id, None, queue, reason, actor)),
   scheduled |-> IF SpawnsTriage(queue)
                   THEN [scheduled EXCEPT ![id] = @ + 1] ELSE scheduled,
   position |-> Len(queues[queue]) + 1]

\* Mutation: a move that finds no entry still writes its audit line.
move_ticket_logs_misses(id, from_queue, to_queue, t, reason, actor) ==
  LET i == FirstIndex(queues[from_queue], id)
      removed == [queues EXCEPT ![from_queue] = RemoveAt(@, i)]
      audit == Append(audit_log, AuditLogEntry(id, from_queue, to_queue, reason, actor))
  IN IF i = 0
       THEN [queues |-> queues, map |-> ticket_queue_map, audit |-> audit, ok |-> FALSE]
       ELSE [queues |-> [removed EXCEPT ![to_queue] = Append(@, QueueEntry(id, t))],
             map |-> [ticket_queue_map EXCEPT ![id] = to_queue],
             audit |-> audit, ok |-> TRUE]

\* The state move_ticket leaves, and the boolean it returns.
move_ticket(id, from_queue, to_queue, t, reason, actor) ==
  LET i == FirstIndex(queues[from_queue], id)
      removed == [queues EXCEPT ![from_queue] = RemoveAt(@, i)]
  IN IF i = 0
       THEN [queues |-> queues, map |-> ticket_queue_map, audit |-> audit_log, ok |-> FALSE]
       ELSE [queues |-> [removed EXCEPT ![to_queue] = Append(@, QueueEntry(id, t))],
             map |-> [ticket_queue_map EXCEPT ![id] = to_queue],
             audit |-> Append(audit_log,
                              AuditLogEntry(id, from_queue, to_queue, reason, actor)),
             ok |-> TRUE]

\* list.sort(key=priority_score, reverse=True) is stable: equal scores keep their order.
RECURSIVE SortByScore(_)
SortByScore(s) ==
  IF s = <<>> THEN <<>>
  ELSE LET i == CHOOSE k \in 1..Len(s) :
                  /\ \A j \in 1..Len(s) : s[j].priority_score <= s[k].priority_score
                  /\ \A j \in 1..(k - 1) : s[j].priority_score < s[k].priority_score
       IN <<s[i]>> \o SortByScore(RemoveAt(s, i))

\* Mutation: dequeue pops the newest entry whatever priority_based says.
DequeueEntryNewest(queue, priority_based) == queues[queue][Len(queues[queue])]

\* The entry dequeue takes from a non-empty queue.
DequeueEntry(queue, priority_based) ==
  IF priority_based /\ Len(queues[queue]) > 1
    THEN SortByScore(queues[queue])[1]
    ELSE queues[queue][Len(queues[queue])]

\* The state dequeue leaves and what it returns. `raised` is the KeyError of
\* `del self._ticket_queue_map[id]` when the id has no row: the entry is gone by then.
dequeue(queue, priority_based) ==
  IF queues[queue] = <<>>
    THEN [queues |-> queues, map |-> ticket_queue_map, result |-> 0, raised |-> FALSE]
    ELSE LET entry == DequeueEntry(queue, priority_based)
             rest == IF priority_based /\ Len(queues[queue]) > 1
                       THEN RemoveAt(queues[queue], FirstEqual(queues[queue], entry))
                       ELSE SubSeq(queues[queue], 1, Len(queues[queue]) - 1)
         IN IF ticket_queue_map[entry.ticket_id] = None
              THEN [queues |-> [queues EXCEPT ![queue] = rest], map |-> ticket_queue_map,
                    result |-> 0, raised |-> TRUE]
              ELSE [queues |-> [queues EXCEPT ![queue] = rest],
                    map |-> [ticket_queue_map EXCEPT ![entry.ticket_id] = None],
                    result |-> entry.ticket_id, raised |-> FALSE]

remove_from_queue(id, queue) ==
  LET i == FirstIndex(queues[queue], id)
  IN IF i = 0
       THEN [queues |-> queues, map |-> ticket_queue_map, ok |-> FALSE]
       ELSE [queues |-> [queues EXCEPT ![queue] = RemoveAt(@, i)],
             map |-> [ticket_queue_map EXCEPT ![id] = None], ok |-> TRUE]

Take(s, n) == SubSeq(s, 1, Min(n, Len(s)))

peek_queue(queue, limit, priority_based) ==
  LET entries == IF priority_based THEN SortByScore(queues[queue]) ELSE queues[queue]
      head == Take(entries, limit)
  IN [i \in 1..Len(head) |-> head[i].ticket_id]

\* None, or the queue the index names when that queue holds an entry of the id.
get_queue_position(id) ==
  LET q == ticket_queue_map[id]
  IN IF q = None THEN None ELSE IF HasEntry(q, id) THEN q ELSE None

get_ticket_queue(id) == ticket_queue_map[id]

\* ------------------------------------------------------------- triage result
\* Confidence is in hundredths: 80 is 0.8.
\* Mutation: the threshold itself excluded.
HighConfidenceStrict(conf) == conf > 80

HighConfidence(conf) == conf >= 80

\* result.get("confidence", 0)
ConfidenceOf(r) == IF r.confidence = Absent THEN 0 ELSE r.confidence

TriageTarget(r) == IF HighConfidence(ConfidenceOf(r)) THEN ASSIGNMENT ELSE TRIAGE

\* Mutation: a reason that leaves the confidence out.
TriageReasonPlain(r) ==
  IF r.confidence # Absent /\ r.confidence >= 80
    THEN Reason("AI Auto-Triage") ELSE Reason("AI Triage Needed")

TriageReason(r) ==
  IF HighConfidence(ConfidenceOf(r))
    THEN [text |-> "AI Auto-Triage (Confidence: ", conf |-> ConfidenceOf(r)]
    ELSE [text |-> "AI Triage Needed (Confidence: ", conf |-> ConfidenceOf(r)]

\* Mutation: the ValueError of an invalid enum string leaves the method.
ApplyFieldsRaising(t, r) ==
  LET t1 == log_reasoning(t, r)
      t2 == IF r.priority # None /\ r.priority \in TicketPriority
              THEN update_priority(t1, r.priority) ELSE t1
      t3 == IF r.category # None /\ r.category \in TicketCategory
              THEN set_category(t2, r.category) ELSE t2
      t4 == IF r.suggested_assignee # None
              THEN set_suggested_assignee(t3, r.suggested_assignee) ELSE t3
  IN IF r.priority # None /\ r.priority \notin TicketPriority THEN t1
     ELSE IF r.category # None /\ r.category \notin TicketCategory THEN t2
     ELSE add_tags(t4, IF r.tags = NoTags THEN <<>> ELSE r.tags)

\* The field updates of _apply_triage_result, before the routing.
ApplyFields(t, r) ==
  LET t1 == log_reasoning(t, r)
      t2 == IF r.priority # None /\ r.priority \in TicketPriority
              THEN update_priority(t1, r.priority) ELSE t1
      t3 == IF r.category # None /\ r.category \in TicketCategory
              THEN set_category(t2, r.category) ELSE t2
      t4 == IF r.suggested_assignee # None
              THEN set_suggested_assignee(t3, r.suggested_assignee) ELSE t3
  IN add_tags(t4, IF r.tags = NoTags THEN <<>> ELSE r.tags)

\* The snapshots of the ticket through _apply_triage_result.
ApplySteps(t, r) ==
  LET t5 == ApplyFields(t, r)
  IN IF HighConfidence(ConfidenceOf(r))
       THEN IF r.suggested_assignee # None
              THEN <<t, t5, assign(t5, r.suggested_assignee)>>
              ELSE <<t, t5, update_status(t5, "ASSIGNED")>>
       ELSE <<t, t5>>

Last(s) == s[Len(s)]

\* The classifier's answers the system is run against.
TriageResults ==
  { [priority |-> "HIGH", category |-> "BILLING", confidence |-> 90,
     suggested_assignee |-> "a1", tags |-> <<"coding">>],
    [priority |-> None, category |-> None, confidence |-> 80,
     suggested_assignee |-> None, tags |-> NoTags],
    [priority |-> "URGENT", category |-> "BILLING", confidence |-> 79,
     suggested_assignee |-> "a2", tags |-> NoTags],
    [priority |-> "LOW", category |-> "SPAM", confidence |-> Absent,
     suggested_assignee |-> None, tags |-> NoTags] }

\* The audit log is append-only; the specifications stop appending at a bound.
Room(bound) == Len(audit_log) < bound

\* ------------------------------------------------------------- ConnectionManager
\* websockets/manager.py. A channel without a key in _channel_subscribers is a
\* channel with no subscriber.
Clients == {"c1", "c2"}
Channels == {"all", "queue.TRIAGE"}

\* No entry in _connections.
Closed == [connected |-> FALSE, subscriptions |-> {}]

NoClient == "None"

\* No broadcast_event call has been made.
NoCast ==
  [pc |-> "done", channels |-> <<>>, i |-> 0, todo |-> {}, client |-> NoClient,
   sent_clients |-> {}, delivered |-> [c \in Clients |-> 0],
   targets |-> {}, steady |-> {}, failed |-> {}]

\* No second broadcast_event call has been made.
NoCastB ==
  [pc |-> "done", channels |-> <<>>, i |-> 0, todo |-> {}, client |-> NoClient,
   sent_clients |-> {}, delivered |-> [c \in Clients |-> 0], overtook |-> {}]

\* No broadcast_to_channel call has been made.
NoChannelCast ==
  [pc |-> "done", channel |-> None, snapshot |-> {}, todo |-> {}, client |-> NoClient,
   sent_count |-> 0, disconnected |-> {}, attempted |-> {}, written |-> {},
                  skipped |-> {}]

\* run_auto_close_task in its sleep, before any pass.
NoSweep == [pc |-> "sleeping", wake_at |-> 1, resolved_tickets |-> <<>>, now |-> 0,
            cutoff_time |-> 0, found |-> {}, closed |-> {}]

\* No claim_ticket request has been made.
NoClaiming ==
  [a \in Agents |-> [pc |-> "idle", ticket_ids |-> <<>>, claimed_ticket |-> 0,
                     success |-> FALSE]]

\* No enqueue call is in progress.
NoCall == [id |-> 0, queue |-> None, pc |-> None]

QueueManagerVars == <<queues, ticket_queue_map, audit_log, scheduled>>

Init ==
  /\ tickets = <<>>
  /\ repo = {}
  /\ queues = [q \in QueueType |-> <<>>]
  /\ ticket_queue_map = [i \in Ids |-> None]
  /\ audit_log = <<>>
  /\ assignments = [a \in Agents |-> {}]
  /\ scheduled = [i \in Ids |-> 0]
  /\ inflight = [i \in Ids |-> 0]
  /\ now = 0
  /\ lock = "free"
  /\ call = NoCall
  /\ connections = [c \in Clients |-> Closed]
  /\ channel_subscribers = [ch \in Channels |-> {}]
  /\ cast = NoCast
  /\ cast_b = NoCastB
  /\ channel_cast = NoChannelCast
  /\ sweep = NoSweep
  /\ claiming = NoClaiming

\* ------------------------------------------------------------- POST /api/tickets/ingest
IngestSteps(priority, category) ==
  LET t0 == Ticket_create(priority, <<>>)
      t1 == IF category # None THEN set_category(t0, category) ELSE t0
  IN <<t0, t1, update_status(t1, "TRIAGE_PENDING")>>

Ingest(priority, category) ==
  LET id == Len(tickets) + 1
      t == Last(IngestSteps(priority, category))
      e == enqueue(id, t, INBOX, Reason("ingested from webhook"), None)
  IN /\ id <= MaxTickets
     /\ tickets' = Append(tickets, t)
     /\ repo' = repo \cup {id}
     /\ queues' = e.queues
     /\ ticket_queue_map' = e.map
     /\ audit_log' = e.audit
     /\ scheduled' = e.scheduled
     /\ UNCHANGED <<assignments, inflight, now, lock, call, bus, sweep, claiming>>

\* ------------------------------------------------------------- the triage task
\* run_triage_task up to its await: analyze_triage builds the payload with to_dict
\* and suspends in the classifier call.
TriageStart(id) ==
  /\ scheduled[id] > 0
  /\ to_dict_ok(tickets[id])
  /\ scheduled' = [scheduled EXCEPT ![id] = @ - 1]
  /\ inflight' = [inflight EXCEPT ![id] = @ + 1]
  /\ UNCHANGED <<tickets, repo, queues, ticket_queue_map, audit_log, assignments, now, lock, call, bus, sweep, claiming>>

\* to_dict raises inside analyze_triage's try: the call returns None, the task ends.
TriageStartFail(id) ==
  /\ scheduled[id] > 0
  /\ ~to_dict_ok(tickets[id])
  /\ scheduled' = [scheduled EXCEPT ![id] = @ - 1]
  /\ UNCHANGED <<tickets, repo, queues, ticket_queue_map, audit_log, assignments,
                 inflight, now, lock, call, bus, sweep, claiming>>

\* Mutation: a failed classifier call routes the ticket to manual triage.
TriageFailToTriage(id) ==
  LET m == move_ticket(id, INBOX, TRIAGE, tickets[id], Reason("AI unavailable"), None)
  IN /\ inflight[id] > 0
     /\ inflight' = [inflight EXCEPT ![id] = @ - 1]
     /\ queues' = m.queues
     /\ ticket_queue_map' = m.map
     /\ audit_log' = m.audit
     /\ UNCHANGED <<tickets, repo, assignments, scheduled, now, lock, call, bus, sweep, claiming>>

\* The classifier call failed or timed out: analyze_triage returns None.
TriageFail(id) ==
  /\ inflight[id] > 0
  /\ inflight' = [inflight EXCEPT ![id] = @ - 1]
  /\ UNCHANGED <<tickets, repo, queues, ticket_queue_map, audit_log, assignments,
                 scheduled, now, lock, call, bus, sweep, claiming>>

\* The classifier answered r: _apply_triage_result(ticket, r).
TriageApply(id, r) ==
  LET t == Last(ApplySteps(tickets[id], r))
      m == move_ticket(id, INBOX, TriageTarget(r), t, TriageReason(r), None)
  IN /\ inflight[id] > 0
     /\ inflight' = [inflight EXCEPT ![id] = @ - 1]
     /\ tickets' = [tickets EXCEPT ![id] = t]
     /\ queues' = m.queues
     /\ ticket_queue_map' = m.map
     /\ audit_log' = m.audit
     /\ UNCHANGED <<repo, assignments, scheduled, now, lock, call, bus, sweep, claiming>>

\* ------------------------------------------------------------- unknown ticket id
\* triage_complete, PATCH, resolve, DELETE, move, assign, release and transfer start
\* with ticket_repository.get and answer 404.
NotFound(id) ==
  /\ id \notin repo
  /\ UNCHANGED vars

\* ------------------------------------------------------------- PATCH /api/tickets/{id}
NoPatch ==
  [title |-> None, status |-> None, priority |-> None, category |-> None,
   tags |-> NoTags, assignee |-> None]

PatchRequests ==
  {[NoPatch EXCEPT !.status = st] : st \in TicketStatus}
    \cup {[NoPatch EXCEPT !.assignee = "a1"],
          [NoPatch EXCEPT !.title = "T", !.status = "RESOLVED"]}

PatchResolves(t, req) == req.status = "RESOLVED" /\ t.status # "RESOLVED"

\* mark_resolved raises in the middle of update_ticket.
PatchRaises(t, req) == PatchResolves(t, req) /\ ~mark_resolved_ok(t)

PatchSteps(t, req) ==
  LET t1 == IF req.title # None THEN update_title(t, req.title) ELSE t
      t2 == IF req.status = None THEN t1
            ELSE IF PatchResolves(t, req) THEN mark_resolved(t1, "MANUAL")
            ELSE update_status(t1, req.status)
      t3 == IF req.priority # None THEN update_priority(t2, req.priority) ELSE t2
      t4 == IF req.category # None THEN set_category(t3, req.category) ELSE t3
      t5 == IF req.tags # NoTags THEN add_tags(t4, req.tags) ELSE t4
      t6 == IF req.assignee # None THEN assign(t5, req.assignee) ELSE t5
  IN IF PatchRaises(t, req) THEN <<t, t1>> ELSE <<t, t1, t2, t3, t4, t5, t6>>

NoMove == [queues |-> queues, map |-> ticket_queue_map, audit |-> audit_log, ok |-> FALSE]

\* The move the two resolving handlers make after mark_resolved, under their test
\* `ticket.current_queue != RESOLUTION` on the ticket mark_resolved has just changed.
ResolveMove(id, from_queue, t, reason) ==
  IF t.current_queue # RESOLUTION
    THEN move_ticket(id, from_queue, RESOLUTION, t, reason, None)
    ELSE NoMove

Patch(id, req) ==
  LET t == tickets[id]
      steps == PatchSteps(t, req)
      m == IF PatchResolves(t, req)
             THEN ResolveMove(id, steps[3].current_queue, steps[3],
                              Reason("manually resolved via status update"))
             ELSE NoMove
  IN /\ id \in repo
     /\ ~PatchRaises(t, req)
     /\ tickets' = [tickets EXCEPT ![id] = Last(steps)]
     /\ queues' = m.queues
     /\ ticket_queue_map' = m.map
     /\ audit_log' = m.audit
     /\ UNCHANGED <<repo, assignments, scheduled, inflight, now, lock, call, bus, sweep, claiming>>

\* InvalidStateTransitionError leaves update_ticket: 500, the title already written.
PatchError(id, req) ==
  /\ id \in repo
  /\ PatchRaises(tickets[id], req)
  /\ tickets' = [tickets EXCEPT ![id] = Last(PatchSteps(tickets[id], req))]
  /\ UNCHANGED <<repo, queues, ticket_queue_map, audit_log, assignments, scheduled,
                 inflight, now, lock, call, bus, sweep, claiming>>

\* ------------------------------------------------------------- POST /api/tickets/{id}/resolve
ResolveSteps(t, action) ==
  IF mark_resolved_ok(t) THEN <<t, mark_resolved(t, action)>> ELSE <<t>>

Resolve(id, action) ==
  LET t == tickets[id]
      t1 == Last(ResolveSteps(t, action))
      m == ResolveMove(id, t.current_queue, t1, Reason("manually resolved"))
  IN /\ id \in repo
     /\ mark_resolved_ok(t)
     /\ tickets' = [tickets EXCEPT ![id] = t1]
     /\ queues' = m.queues
     /\ ticket_queue_map' = m.map
     /\ audit_log' = m.audit
     /\ UNCHANGED <<repo, assignments, scheduled, inflight, now, lock, call, bus, sweep, claiming>>

\* mark_resolved raises before it writes anything: 500.
ResolveError(id) ==
  /\ id \in repo
  /\ ~mark_resolved_ok(tickets[id])
  /\ UNCHANGED vars

\* ------------------------------------------------------------- DELETE /api/tickets/{id}
Delete(id) ==
  LET q == get_queue_position(id)
      r == IF q # None THEN remove_from_queue(id, q)
           ELSE [queues |-> queues, map |-> ticket_queue_map, ok |-> FALSE]
  IN /\ id \in repo
     /\ queues' = r.queues
     /\ ticket_queue_map' = r.map
     /\ repo' = repo \ {id}
     /\ UNCHANGED <<tickets, audit_log, assignments, scheduled, inflight, now, lock, call, bus, sweep, claiming>>

\* ------------------------------------------------------------- POST /api/tickets/{id}/triage_complete
TriageCompleteRequests ==
  {[category |-> "BILLING", priority |-> "HIGH", suggested_assignee |-> sa,
    auto_resolve |-> ar] : sa \in {None, "a1"}, ar \in BOOLEAN}

TriageCompleteFields(t, req) ==
  LET t1 == set_category(t, req.category)
      t2 == update_priority(t1, req.priority)
  IN IF req.suggested_assignee # None
       THEN set_suggested_assignee(t2, req.suggested_assignee) ELSE t2

TriageCompleteRaises(t, req) ==
  IF req.auto_resolve THEN ~mark_resolved_ok(t) ELSE ~move_to_queue_ok(t, ASSIGNMENT)

TriageCompleteSteps(t, req) ==
  LET t3 == TriageCompleteFields(t, req)
  IN IF TriageCompleteRaises(t, req) THEN <<t, t3>>
     ELSE IF req.auto_resolve THEN <<t, t3, mark_resolved(t3, "NONE")>>
     ELSE <<t, t3, move_to_queue(t3, ASSIGNMENT)>>

\* 400: the ticket's current_queue is not TRIAGE.
TriageCompleteRejected(id) ==
  /\ id \in repo
  /\ tickets[id].current_queue # TRIAGE
  /\ UNCHANGED vars

TriageComplete(id, req) ==
  LET t == tickets[id]
      t4 == Last(TriageCompleteSteps(t, req))
      m == move_ticket(id, TRIAGE, IF req.auto_resolve THEN RESOLUTION ELSE ASSIGNMENT,
                       t4, IF req.auto_resolve THEN Reason("auto-resolved: AI decision")
                                                ELSE Reason("triage complete"), None)
  IN /\ id \in repo
     /\ t.current_queue = TRIAGE
     /\ ~TriageCompleteRaises(t, req)
     /\ tickets' = [tickets EXCEPT ![id] = t4]
     /\ queues' = m.queues
     /\ ticket_queue_map' = m.map
     /\ audit_log' = m.audit
     /\ UNCHANGED <<repo, assignments, scheduled, inflight, now, lock, call, bus, sweep, claiming>>

\* InvalidStateTransitionError after the fields were written: 500.
TriageCompleteError(id, req) ==
  /\ id \in repo
  /\ tickets[id].current_queue = TRIAGE
  /\ TriageCompleteRaises(tickets[id], req)
  /\ tickets' = [tickets EXCEPT ![id] = Last(TriageCompleteSteps(tickets[id], req))]
  /\ UNCHANGED <<repo, queues, ticket_queue_map, audit_log, assignments, scheduled,
                 inflight, now, lock, call, bus, sweep, claiming>>

\* ------------------------------------------------------------- POST /api/distribution/claim
ClaimPeekLimit == 20

ClaimRequests ==
  {[agent_id |-> a, preferred_categories |-> pc, max_priority |-> mp] :
     a \in Agents, pc \in {None, "BILLING"}, mp \in {None, "MEDIUM"}}

ClaimAny(agent) == [agent_id |-> agent, preferred_categories |-> None, max_priority |-> None]

\* The loop over the peeked ids: the id claimed, 0 when none matches, -1 when
\* ticket.priority.value raises (priority None under a max_priority filter).
RECURSIVE ClaimPick(_, _)
ClaimPick(ids, req) ==
  IF ids = <<>> THEN 0
  ELSE LET tid == Head(ids)
           t == tickets[tid]
       IN IF tid \notin repo THEN ClaimPick(Tail(ids), req)
          ELSE IF t.assignee # None THEN ClaimPick(Tail(ids), req)
          ELSE IF /\ req.preferred_categories # None
                  /\ t.category # None
                  /\ t.category # req.preferred_categories
                 THEN ClaimPick(Tail(ids), req)
          ELSE IF req.max_priority # None /\ t.priority = None THEN -1
          ELSE IF /\ req.max_priority # None
                  /\ PriorityBase(t.priority) > PriorityBase(req.max_priority)
                 THEN ClaimPick(Tail(ids), req)
          ELSE tid

ClaimChoice(req) == ClaimPick(peek_queue(ASSIGNMENT, ClaimPeekLimit, TRUE), req)

ClaimSteps(t, agent) ==
  LET t1 == assign(t, agent)
  IN IF move_to_queue_ok(t1, ACTIVE) THEN <<t, t1, move_to_queue(t1, ACTIVE)>> ELSE <<t, t1>>

\* success=False (nothing to claim), or the 500 of the priority filter.
ClaimNone(req) ==
  /\ ClaimChoice(req) \in {0, -1}
  /\ UNCHANGED vars

\* Mutation: the handler takes the entry out of ASSIGNMENT and appends none to ACTIVE.
ClaimTakingEntry(req) ==
  LET tid == ClaimChoice(req)
      steps == ClaimSteps(tickets[tid], req.agent_id)
  IN /\ tid \in Ids
     /\ Len(steps) = 3
     /\ tickets' = [tickets EXCEPT ![tid] = Last(steps)]
     /\ queues' = [queues EXCEPT ![ASSIGNMENT] = RemoveAt(@, FirstIndex(@, tid))]
     /\ ticket_queue_map' = [ticket_queue_map EXCEPT ![tid] = None]
     /\ assignments' = [assignments EXCEPT ![req.agent_id] = @ \cup {tid}]
     /\ UNCHANGED <<repo, audit_log, scheduled, inflight, now, lock, call, bus, sweep, claiming>>

Claim(req) ==
  LET tid == ClaimChoice(req)
      steps == ClaimSteps(tickets[tid], req.agent_id)
      m == move_ticket(tid, ASSIGNMENT, ACTIVE, Last(steps),
                       Reason("claimed by agent"), req.agent_id)
  IN /\ tid \in Ids
     /\ Len(steps) = 3
     /\ tickets' = [tickets EXCEPT ![tid] = Last(steps)]
     /\ queues' = m.queues
     /\ ticket_queue_map' = m.map
     /\ audit_log' = m.audit
     /\ assignments' = [assignments EXCEPT ![req.agent_id] = @ \cup {tid}]
     /\ UNCHANGED <<repo, scheduled, inflight, now, lock, call, bus, sweep, claiming>>

\* move_to_queue(ACTIVE) raises after assign wrote the assignee: 500.
ClaimError(req) ==
  LET tid == ClaimChoice(req)
      steps == ClaimSteps(tickets[tid], req.agent_id)
  IN /\ tid \in Ids
     /\ Len(steps) = 2
     /\ tickets' = [tickets EXCEPT ![tid] = Last(steps)]
     /\ UNCHANGED <<repo, queues, ticket_queue_map, audit_log, assignments,
                    scheduled, inflight, now, lock, call, bus, sweep, claiming>>

\* ------------------------------------------------------------- POST /api/distribution/assign
Assign(id, agent) ==
  LET t == tickets[id]
      t1 == assign(t, agent)
      m == IF t.current_queue # t1.current_queue
             THEN move_ticket(id, t.current_queue, t1.current_queue, t1,
                              Reason("assigned to agent"), agent)
             ELSE NoMove
  IN /\ id \in repo
     /\ tickets' = [tickets EXCEPT ![id] = t1]
     /\ queues' = m.queues
     /\ ticket_queue_map' = m.map
     /\ audit_log' = m.audit
     /\ assignments' = [assignments EXCEPT ![agent] = @ \cup {id}]
     /\ UNCHANGED <<repo, scheduled, inflight, now, lock, call, bus, sweep, claiming>>

\* ------------------------------------------------------------- POST /api/distribution/release
ReleaseSteps(t, retriage) ==
  LET t1 == unassign(t)
      t2 == update_status(t1, "TRIAGE_PENDING")
  IN IF retriage THEN <<t, t1, t2, clear_ai_data(t2)>> ELSE <<t, t1>>

ReleaseReason(retriage) ==
  IF retriage THEN Reason("re-triage requested") ELSE Reason("released by agent")

\* The queue-manager call of release_ticket: a move out of ACTIVE, an enqueue otherwise.
ReleaseQueueOp(id, old_queue, target_queue, t, retriage, agent) ==
  IF old_queue = ACTIVE
    THEN LET m == move_ticket(id, ACTIVE, target_queue, t, ReleaseReason(retriage), agent)
         IN [queues |-> m.queues, map |-> m.map, audit |-> m.audit, scheduled |-> scheduled]
    ELSE LET e == enqueue(id, t, target_queue, ReleaseReason(retriage), agent)
         IN [queues |-> e.queues, map |-> e.map, audit |-> e.audit, scheduled |-> e.scheduled]

\* Mutation: the assignee is compared after ticket.unassign().
ReleaseForbiddenAfterUnassign(id, agent) ==
  /\ id \in repo
  /\ tickets[id].assignee # agent
  /\ tickets' = [tickets EXCEPT ![id] = unassign(@)]
  /\ UNCHANGED <<repo, queues, ticket_queue_map, audit_log, assignments, scheduled,
                 inflight, now, lock, call, bus, sweep, claiming>>

\* 403: the ticket's assignee is not the requesting agent.
ReleaseForbidden(id, agent) ==
  /\ id \in repo
  /\ tickets[id].assignee # agent
  /\ UNCHANGED vars

Release(id, agent, retriage) ==
  LET t == tickets[id]
      t1 == Last(ReleaseSteps(t, retriage))
      target_queue == IF retriage THEN INBOX ELSE unassign(t).current_queue
      o == ReleaseQueueOp(id, t.current_queue, target_queue, t1, retriage, agent)
  IN /\ id \in repo
     /\ t.assignee = agent
     /\ tickets' = [tickets EXCEPT ![id] = t1]
     /\ queues' = o.queues
     /\ ticket_queue_map' = o.map
     /\ audit_log' = o.audit
     /\ scheduled' = o.scheduled
     /\ assignments' = [assignments EXCEPT ![agent] = @ \ {id}]
     /\ UNCHANGED <<repo, inflight, now, lock, call, bus, sweep, claiming>>

\* ------------------------------------------------------------- POST /api/distribution/transfer
TransferForbidden(id, from_agent) ==
  /\ id \in repo
  /\ tickets[id].assignee # from_agent
  /\ UNCHANGED vars

Transfer(id, from_agent, to_agent) ==
  /\ id \in repo
  /\ tickets[id].assignee = from_agent
  /\ tickets' = [tickets EXCEPT ![id] = assign(tickets[id], to_agent)]
  /\ assignments' =
       [a \in Agents |->
          IF a = to_agent THEN assignments[a] \cup {id}
          ELSE IF a = from_agent THEN assignments[a] \ {id}
          ELSE assignments[a]]
  /\ UNCHANGED <<repo, queues, ticket_queue_map, audit_log, scheduled, inflight, now, lock, call, bus, sweep, claiming>>

\* ------------------------------------------------------------- POST /api/queues/{name}/dequeue
Dequeue(queue, priority_based) ==
  LET d == dequeue(queue, priority_based)
  IN /\ queues' = d.queues
     /\ ticket_queue_map' = d.map
     /\ UNCHANGED <<tickets, repo, audit_log, assignments, scheduled, inflight, now, lock, call, bus, sweep, claiming>>

\* ------------------------------------------------------------- POST /api/queues/move
\* 400: the index names another queue, or move_to_queue raises (before it writes).
MoveRejected(id, from_queue, to_queue) ==
  /\ id \in repo
  /\ get_ticket_queue(id) # from_queue \/ ~move_to_queue_ok(tickets[id], to_queue)
  /\ UNCHANGED vars

\* 200, or 400 "Failed to move ticket in queue" when move_ticket returns False:
\* the ticket has been changed by then.
Move(id, from_queue, to_queue) ==
  LET t1 == move_to_queue(tickets[id], to_queue)
      m == move_ticket(id, from_queue, to_queue, t1, Reason("manual move"), None)
  IN /\ id \in repo
     /\ get_ticket_queue(id) = from_queue
     /\ move_to_queue_ok(tickets[id], to_queue)
     /\ tickets' = [tickets EXCEPT ![id] = t1]
     /\ queues' = m.queues
     /\ ticket_queue_map' = m.map
     /\ audit_log' = m.audit
     /\ UNCHANGED <<repo, assignments, scheduled, inflight, now, lock, call, bus, sweep, claiming>>

\* ------------------------------------------------------------- the routers
\* Requests a specification offers: ids, the audit bound, and for the requests that
\* are only rejected a sample of their arguments.
IngestRoute(cap) ==
  Len(tickets) < MaxIngest /\ Room(cap) /\ Ingest("MEDIUM", None)

TriageTask(ids, cap) ==
  \/ \E id \in ids : TriageStart(id)
  \/ \E id \in ids : TriageFail(id)
  \/ \E id \in ids, r \in TriageResults : Room(cap) /\ TriageApply(id, r)

TicketRoutes(ids, cap) ==
  \/ \E id \in ids : NotFound(id)
  \/ \E id \in ids, req \in PatchRequests : Patch(id, req)
  \/ \E id \in ids, req \in PatchRequests : PatchError(id, req)
  \/ \E id \in ids : Resolve(id, "MANUAL")
  \/ \E id \in ids : ResolveError(id)
  \/ \E id \in ids : Delete(id)
  \/ \E id \in ids : TriageCompleteRejected(id)
  \/ \E id \in ids, req \in TriageCompleteRequests : Room(cap) /\ TriageComplete(id, req)
  \/ \E id \in ids, req \in TriageCompleteRequests : TriageCompleteError(id, req)

DistributionRoutes(ids, cap) ==
  \/ \E req \in ClaimRequests : ClaimNone(req)
  \/ \E req \in ClaimRequests : Room(cap) /\ Claim(req)
  \/ \E id \in ids, a \in Agents : Room(cap) /\ Assign(id, a)
  \/ \E id \in ids, a \in Agents : ReleaseForbidden(id, a)
  \/ \E id \in ids, a \in Agents, retriage \in BOOLEAN :
       Room(cap) /\ Release(id, a, retriage)
  \/ \E id \in ids, a \in Agents : TransferForbidden(id, a)
  \/ \E id \in ids, a \in Agents, b \in Agents : Transfer(id, a, b)

QueueRoutes(ids, cap) ==
  \/ \E q \in QueueType, pb \in BOOLEAN : Dequeue(q, pb)
  \/ \E id \in ids, f \in QueueType : MoveRejected(id, f, ACTIVE)
  \/ \E id \in ids, f \in QueueType, g \in QueueType : Room(cap) /\ Move(id, f, g)

\* ------------------------------------------------------------- the ticket routes
\* routes/tickets.py and routes/queues.py over the queue manager and its triage
\* task, with the unfiltered claim of one agent.
Next ==
  \/ IngestRoute(MaxAudit)
  \/ TriageTask(1..MaxIngest, MaxAudit)
  \/ TicketRoutes(1..MaxIngest, MaxAudit)
  \/ QueueRoutes(1..MaxIngest, MaxAudit)
  \/ ClaimNone(ClaimAny("a1"))
  \/ Room(MaxAudit) /\ Claim(ClaimAny("a1"))
  \/ ClaimError(ClaimAny("a1"))

Spec == Init /\ [][Next]_vars

\* ------------------------------------------------------------- the distribution routes
\* routes/distribution.py and routes/queues.py. The tickets they meet never make
\* claim_ticket's move_to_queue raise, so ClaimError is left to Spec.
NextDistribution ==
  \/ IngestRoute(MaxAuditDistribution)
  \/ TriageTask(1..MaxIngest, MaxAuditDistribution)
  \/ \E id \in 1..MaxIngest : TriageStartFail(id)
  \/ DistributionRoutes(1..MaxIngest, MaxAuditDistribution)
  \/ QueueRoutes(1..MaxIngest, MaxAuditDistribution)

SpecDistribution == Init /\ [][NextDistribution]_vars

\* ------------------------------------------------------------- the queue manager alone
\* QueueManager driven through its methods, on ticket objects built by Ticket.create.
InitQM ==
  /\ now = 0
  /\ tickets \in [Ids -> {Ticket_create(p, <<>>) : p \in {"LOW", "CRITICAL"}}]
  /\ repo = {}
  /\ queues = [q \in QueueType |-> <<>>]
  /\ ticket_queue_map = [i \in Ids |-> None]
  /\ audit_log = <<>>
  /\ assignments = [a \in Agents |-> {}]
  /\ scheduled = [i \in Ids |-> 0]
  /\ inflight = [i \in Ids |-> 0]
  /\ lock = "free"
  /\ call = NoCall
  /\ connections = [c \in Clients |-> Closed]
  /\ channel_subscribers = [ch \in Channels |-> {}]
  /\ cast = NoCast
  /\ cast_b = NoCastB
  /\ channel_cast = NoChannelCast
  /\ sweep = NoSweep
  /\ claiming = NoClaiming

QEnqueue(id, queue) ==
  LET e == enqueue(id, tickets[id], queue, Reason("enqueue"), None)
  IN /\ queues' = e.queues
     /\ ticket_queue_map' = e.map
     /\ audit_log' = e.audit
     /\ scheduled' = e.scheduled
     /\ UNCHANGED <<tickets, repo, assignments, inflight, now, lock, call, bus, sweep, claiming>>

QMove(id, from_queue, to_queue) ==
  LET m == move_ticket(id, from_queue, to_queue, tickets[id], Reason("move"), None)
  IN /\ queues' = m.queues
     /\ ticket_queue_map' = m.map
     /\ audit_log' = m.audit
     /\ UNCHANGED <<tickets, repo, assignments, scheduled, inflight, now, lock, call, bus, sweep, claiming>>

QRemove(id, queue) ==
  LET r == remove_from_queue(id, queue)
  IN /\ queues' = r.queues
     /\ ticket_queue_map' = r.map
     /\ UNCHANGED <<tickets, repo, audit_log, assignments, scheduled, inflight, now, lock, call, bus, sweep, claiming>>

NextQM ==
  \/ \E id \in Ids, q \in QueueType : Room(MaxAuditQM) /\ QEnqueue(id, q)
  \/ \E id \in Ids, f \in QueueType, g \in QueueType : Room(MaxAuditQM) /\ QMove(id, f, g)
  \/ \E id \in Ids, q \in QueueType : QRemove(id, q)
  \/ \E q \in QueueType, pb \in BOOLEAN : Dequeue(q, pb)
  \/ TriageTask(Ids, MaxAuditQM)

SpecQM == InitQM /\ [][NextQM]_vars

\* ------------------------------------------------------------- the queue-manager lock
\* enqueue in the steps that its `with self._lock` block separates. The handlers
\* are coroutines without an await and run on the one event-loop thread, so a
\* task made by loop.create_task starts only when the running call has returned.

\* Mutation: a task the loop runs as soon as it is created.
TaskMayRunEager == TRUE

\* The event loop is between callbacks: it may start or resume a task.
TaskMayRun == call = NoCall

\* `with self._lock:` entered.
EnqueueEnter(id, queue) ==
  /\ call = NoCall
  /\ lock = "free"
  /\ lock' = "held"
  /\ call' = [id |-> id, queue |-> queue, pc |-> "locked"]
  /\ UNCHANGED <<tickets, repo, queues, ticket_queue_map, audit_log, assignments,
                 scheduled, inflight, now, bus, sweep, claiming>>

\* The body of the block: the entry, the index, the audit entry, create_task.
EnqueueCommit ==
  LET e == enqueue(call.id, tickets[call.id], call.queue, Reason("enqueue"), None)
  IN /\ call.pc = "locked"
     /\ queues' = e.queues
     /\ ticket_queue_map' = e.map
     /\ audit_log' = e.audit
     /\ scheduled' = e.scheduled
     /\ call' = [call EXCEPT !.pc = "committed"]
     /\ UNCHANGED <<tickets, repo, assignments, inflight, now, lock, bus, sweep, claiming>>

\* `return len(...)` leaves the block: the lock is released, the call is over.
EnqueueReturn ==
  /\ call.pc = "committed"
  /\ lock' = "free"
  /\ call' = NoCall
  /\ UNCHANGED <<tickets, repo, queues, ticket_queue_map, audit_log, assignments,
                 scheduled, inflight, now, bus, sweep, claiming>>

\* The other methods take the lock and release it within one call.
NextLock ==
  \/ \E id \in Ids, q \in QueueType : Room(MaxAuditLock) /\ EnqueueEnter(id, q)
  \/ EnqueueCommit
  \/ EnqueueReturn
  \/ \E id \in Ids : TaskMayRun /\ TriageStart(id)
  \/ \E id \in Ids : TaskMayRun /\ TriageFail(id)
  \/ \E id \in Ids, r \in TriageResults :
       TaskMayRun /\ lock = "free" /\ Room(MaxAuditLock) /\ TriageApply(id, r)
  \/ \E id \in Ids, f \in QueueType, g \in QueueType :
       call = NoCall /\ Room(MaxAuditLock) /\ QMove(id, f, g)
  \/ \E id \in Ids, q \in QueueType : call = NoCall /\ QRemove(id, q)
  \/ \E q \in QueueType, pb \in BOOLEAN : call = NoCall /\ Dequeue(q, pb)

SpecLock == InitQM /\ [][NextLock]_vars

\* ------------------------------------------------------------- the subscription bus
\* ConnectionManager driven by the websocket endpoint (main.py) and by one
\* broadcast_event call at a time. A socket write is a suspension point: the
\* other clients' coroutines run while broadcast_event waits in it.
CM == [connections |-> connections, channel_subscribers |-> channel_subscribers]

disconnect(cm, c) ==
  IF ~cm.connections[c].connected THEN cm
  ELSE [connections |-> [cm.connections EXCEPT ![c] = Closed],
        channel_subscribers |->
          [ch \in Channels |->
             IF ch \in cm.connections[c].subscriptions
               THEN cm.channel_subscribers[ch] \ {c}
               ELSE cm.channel_subscribers[ch]]]

subscribe(cm, c, channel) ==
  IF ~cm.connections[c].connected THEN cm
  ELSE [connections |-> [cm.connections EXCEPT ![c].subscriptions = @ \cup {channel}],
        channel_subscribers |-> [cm.channel_subscribers EXCEPT ![channel] = @ \cup {c}]]

unsubscribe(cm, c, channel) ==
  IF ~cm.connections[c].connected THEN cm
  ELSE [connections |-> [cm.connections EXCEPT ![c].subscriptions = @ \ {channel}],
        channel_subscribers |-> [cm.channel_subscribers EXCEPT ![channel] = @ \ {c}]]

\* A new WebSocketClient under the id, whatever was registered under it, then
\* the subscription to "all".
connect(cm, c) ==
  subscribe([cm EXCEPT !.connections[c] = [connected |-> TRUE, subscriptions |-> {}]],
            c, "all")

\* The clients of which broadcast_event can tell that nothing happened to them
\* during the call.
Steady(c) == IF cast.pc = "sending" THEN cast.steady \ {c} ELSE cast.steady

\* A step of the websocket endpoint for client c that leaves the manager as cm.
\* The confirmation frame it writes afterwards can fail, which is a Disconnect.
ClientStep(cm, c) ==
  /\ connections' = cm.connections
  /\ channel_subscribers' = cm.channel_subscribers
  /\ cast' = [cast EXCEPT !.steady = Steady(c)]
  /\ UNCHANGED <<tickets, repo, queues, ticket_queue_map, audit_log, assignments,
                 scheduled, inflight, now, lock, call, cast_b, channel_cast, sweep, claiming>>

Connect(c) == ClientStep(connect(CM, c), c)

Subscribe(c, channel) ==
  connections[c].connected /\ ClientStep(subscribe(CM, c, channel), c)

Unsubscribe(c, channel) ==
  connections[c].connected /\ ClientStep(unsubscribe(CM, c, channel), c)

\* WebSocketDisconnect in the endpoint, or a failed write of send_personal_message.
Disconnect(c) ==
  connections[c].connected /\ ClientStep(disconnect(CM, c), c)

\* The channel lists of the calls: one channel, two, and one named twice, as
\* _publish_event names queue.{current} when it is also an extra channel.
BroadcastLists ==
  {<<"all">>, <<"queue.TRIAGE">>, <<"all", "queue.TRIAGE">>,
   <<"queue.TRIAGE", "all">>, <<"queue.TRIAGE", "queue.TRIAGE">>}

ChannelsOf(L) == {L[k] : k \in 1..Len(L)}

\* `if channel in self._channel_subscribers`: a channel nobody ever subscribed to
\* has no key.
Subscribers(cm, channel) ==
  IF channel \in DOMAIN cm.channel_subscribers THEN cm.channel_subscribers[channel] ELSE {}

\* The two loops of broadcast_event from channel i with the clients of its copy
\* still to visit, up to the next socket write or to the return. A set is
\* iterated in an order the code does not choose: any client that passes the test
\* can be the next one written to, after any of those that do not.
RECURSIVE Scan(_, _, _, _, _)
Scan(cm, L, i, todo, sent) ==
  LET pass == {c \in todo : c \notin sent /\ cm.connections[c].connected}
  IN IF pass # {}
       THEN {[pc |-> "sending", i |-> i, client |-> c, todo |-> todo \ ({c} \cup skipped)] :
               c \in pass, skipped \in SUBSET (todo \ pass)}
     ELSE IF i >= Len(L)
       THEN {[pc |-> "done", i |-> Len(L), client |-> NoClient, todo |-> {}]}
     ELSE Scan(cm, L, i + 1, Subscribers(cm, L[i + 1]), sent)

\* broadcast_event(event_type, data, channels) up to its first socket write.
BroadcastStart(L) ==
  /\ cast.pc = "done"
  /\ \E pos \in Scan(CM, L, 0, {}, {}) :
       cast' = [pc |-> pos.pc, channels |-> L, i |-> pos.i, todo |-> pos.todo,
                client |-> pos.client, sent_clients |-> {},
                delivered |-> [c \in Clients |-> 0],
                targets |-> {c \in Clients : /\ connections[c].connected
                                              /\ connections[c].subscriptions
                                                   \cap ChannelsOf(L) # {}},
                steady |-> Clients, failed |-> {}]
  /\ UNCHANGED <<tickets, repo, queues, ticket_queue_map, audit_log, assignments,
                 scheduled, inflight, now, lock, call, connections, channel_subscribers,
                 cast_b, channel_cast, sweep, claiming>>

\* The write returns or raises: send_personal_message counts the client as sent,
\* or disconnects its id; the loops go on to the next write or to the return.
BroadcastResume(success) ==
  LET c == cast.client
      cm == IF success THEN CM ELSE disconnect(CM, c)
      sent == IF success THEN cast.sent_clients \cup {c} ELSE cast.sent_clients
  IN /\ cast.pc = "sending"
     /\ connections' = cm.connections
     /\ channel_subscribers' = cm.channel_subscribers
     /\ \E pos \in Scan(cm, cast.channels, cast.i, cast.todo, sent) :
          cast' = [cast EXCEPT !.pc = pos.pc, !.i = pos.i, !.todo = pos.todo,
                               !.client = pos.client, !.sent_clients = sent,
                               !.delivered[c] = IF success THEN @ + 1 ELSE @,
                               !.failed = IF success THEN @ ELSE @ \cup {c}]
     /\ UNCHANGED <<tickets, repo, queues, ticket_queue_map, audit_log, assignments,
                    scheduled, inflight, now, lock, call, cast_b, channel_cast, sweep, claiming>>

NextBus ==
  \/ \E c \in Clients : Connect(c)
  \/ \E c \in Clients, ch \in Channels : Subscribe(c, ch)
  \/ \E c \in Clients, ch \in Channels : Unsubscribe(c, ch)
  \/ \E c \in Clients : Disconnect(c)
  \/ \E L \in BroadcastLists : BroadcastStart(L)
  \/ \E success \in BOOLEAN : BroadcastResume(success)

SpecBus == Init /\ [][NextBus]_vars

\* ------------------------------------------------------------- the event publisher
\* events/publisher.py, and the publish calls of the handlers. What a handler
\* publishes is decided by its request and by the ticket it found.

\* The methods of class EventPublisher that send an event, and its type.
EventPublisher ==
  [publish_ticket_created |-> "ticket.created",
   publish_ticket_updated |-> "ticket.updated",
   publish_ticket_moved |-> "ticket.moved",
   publish_ticket_assigned |-> "ticket.assigned",
   publish_ticket_triage_pending |-> "ticket.triage_pending",
   publish_queue_stats |-> "queue.stats"]

\* background_tasks.add_task(event_publisher.<method>, ...) for the methods a
\* handler names, in its order. Reading a method the class does not define raises
\* AttributeError in the handler: 500, and the tasks added so far go with the
\* response that is never built.
add_task(methods) ==
  LET missing == {i \in 1..Len(methods) : methods[i] \notin DOMAIN EventPublisher}
  IN [raised |-> missing # {},
      events |-> IF missing # {} THEN {}
                 ELSE {EventPublisher[methods[i]] : i \in 1..Len(methods)}]

IngestPublishes == <<"publish_ticket_created">>

\* _apply_triage_result calls no publisher method.
ApplyPublishes == <<>>

TriageCompletePublishes == <<"publish_ticket_moved">>

PatchPublishes(t, req) ==
  (IF req.assignee # None THEN <<"publish_ticket_assigned">> ELSE <<>>)
    \o (IF PatchResolves(t, req) THEN <<"publish_ticket_resolved">>
        ELSE IF req # NoPatch THEN <<"publish_ticket_updated">>
        ELSE <<>>)

ResolvePublishes == <<"publish_ticket_resolved">>

ClaimPublishes == <<"publish_ticket_assigned", "publish_ticket_moved">>

MovePublishes == <<"publish_ticket_moved">>

\* release_ticket and transfer_ticket raise their 403 before any add_task.
ReleasePublishes(t, agent, retriage) ==
  IF t.assignee # agent THEN <<>>
  ELSE <<"publish_ticket_moved">>
         \o (IF retriage THEN <<"publish_ticket_assigned">> ELSE <<>>)

TransferPublishes(t, from_agent) ==
  IF t.assignee # from_agent THEN <<>> ELSE <<"publish_ticket_assigned">>

\* ------------------------------------------------------------- the channels of an event
\* The f-strings of publisher.py; str(None) is "None".
QueueChannel(queue) == "queue." \o queue
TicketChannel(id) == "ticket." \o ToString(id)
AgentChannel(agent) == "agent." \o agent

\* Mutation: a publisher that leaves out the channel of the ticket's queue.
publish_event_without_queue(id, extra_channels) ==
  <<"all", "tickets.all", TicketChannel(id)>> \o extra_channels

\* _publish_event with a ticket: the channel list it hands to broadcast_event.
publish_event(id, extra_channels) ==
  <<"all", "tickets.all", TicketChannel(id), QueueChannel(tickets[id].current_queue)>>
    \o extra_channels

publish_ticket_created(id) ==
  [event |-> "ticket.created", channels |-> publish_event(id, <<>>)]

publish_ticket_updated(id) ==
  [event |-> "ticket.updated", channels |-> publish_event(id, <<>>)]

publish_ticket_moved(id, from_queue, to_queue) ==
  [event |-> "ticket.moved",
   channels |-> publish_event(id, <<QueueChannel(from_queue), QueueChannel(to_queue)>>)]

publish_ticket_assigned(id, assignee) ==
  [event |-> "ticket.assigned", channels |-> publish_event(id, <<AgentChannel(assignee)>>)]

publish_ticket_triage_pending(id) ==
  [event |-> "ticket.triage_pending", channels |-> publish_event(id, <<>>)]

\* publish_queue_stats calls broadcast_event itself.
publish_queue_stats(queue) ==
  [event |-> "queue.stats", channels |-> <<"all", QueueChannel(queue)>>]

\* The events about a stored ticket, for the arguments the handlers pass.
TicketEvents(id) ==
  {publish_ticket_created(id), publish_ticket_updated(id), publish_ticket_triage_pending(id)}
    \cup {publish_ticket_moved(id, f, g) : f \in QueueType, g \in QueueType}
    \cup {publish_ticket_assigned(id, a) : a \in Agents \cup {None}}

\* A publisher method runs up to the first socket write of its broadcast.
Publish(ev) == BroadcastStart(ev.channels)

\* The publisher over tickets in the queues the move route takes them to, with
\* clients on the bus.
NextPublish ==
  \/ IngestRoute(MaxAuditPublish)
  \/ \E id \in 1..MaxIngest, f \in QueueType, g \in QueueType :
       Room(MaxAuditPublish) /\ Move(id, f, g)
  \/ \E c \in Clients : Connect(c)
  \/ \E id \in repo : \E ev \in TicketEvents(id) : Publish(ev)
  \/ \E q \in QueueType : Publish(publish_queue_stats(q))
  \/ \E success \in BOOLEAN : BroadcastResume(success)

SpecPublish == Init /\ [][NextPublish]_vars

\* ------------------------------------------------------------- two broadcasts at once
\* A second broadcast_event call (another publisher task) that starts while the
\* first one is suspended in a socket write, and runs over the same manager.
\* The clients, among cs, to which the first call has not begun a write: a socket
\* carries its frames in the order in which the writes were begun.
NotYetWritten(cs) ==
  {c \in cs : /\ c \notin cast.sent_clients \cup cast.failed
              /\ ~(cast.pc = "sending" /\ cast.client = c)}

BroadcastStartB(L) ==
  /\ cast.pc = "sending"
  /\ cast_b.pc = "done"
  /\ \E pos \in Scan(CM, L, 0, {}, {}) :
       cast_b' = [pc |-> pos.pc, channels |-> L, i |-> pos.i, todo |-> pos.todo,
                  client |-> pos.client, sent_clients |-> {},
                  delivered |-> [c \in Clients |-> 0],
                  overtook |-> NotYetWritten({pos.client} \cap Clients)]
  /\ UNCHANGED <<tickets, repo, queues, ticket_queue_map, audit_log, assignments,
                 scheduled, inflight, now, lock, call, connections, channel_subscribers,
                 cast, channel_cast, sweep, claiming>>

BroadcastResumeB(success) ==
  LET c == cast_b.client
      cm == IF success THEN CM ELSE disconnect(CM, c)
      sent == IF success THEN cast_b.sent_clients \cup {c} ELSE cast_b.sent_clients
  IN /\ cast_b.pc = "sending"
     /\ connections' = cm.connections
     /\ channel_subscribers' = cm.channel_subscribers
     /\ \E pos \in Scan(cm, cast_b.channels, cast_b.i, cast_b.todo, sent) :
          cast_b' = [cast_b EXCEPT !.pc = pos.pc, !.i = pos.i, !.todo = pos.todo,
                                   !.client = pos.client, !.sent_clients = sent,
                                   !.delivered[c] = IF success THEN @ + 1 ELSE @,
                                   !.overtook = @ \cup NotYetWritten({pos.client} \cap Clients)]
     /\ UNCHANGED <<tickets, repo, queues, ticket_queue_map, audit_log, assignments,
                    scheduled, inflight, now, lock, call, cast, channel_cast, sweep, claiming>>

\* One broadcast, and the broadcasts that start after it and before it returns.
NextOrder ==
  \/ \E c \in Clients : cast.pc = "done" /\ Connect(c)
  \/ \E c \in Clients : cast.pc = "done" /\ Subscribe(c, "queue.TRIAGE")
  \/ \E c \in Clients : cast.pc = "done" /\ Unsubscribe(c, "all")
  \/ \E L \in BroadcastLists : cast_b = NoCastB /\ BroadcastStart(L)
  \/ \E success \in BOOLEAN : BroadcastResume(success)
  \/ \E L \in BroadcastLists : BroadcastStartB(L)
  \/ \E success \in BOOLEAN : BroadcastResumeB(success)

SpecOrder == Init /\ [][NextOrder]_vars

\* ------------------------------------------------------------- broadcast_to_channel
\* One broadcast_to_channel call beside the websocket endpoint. Its socket write
\* is awaited inside the loop over the copy of the subscriber set.

\* The loop over the clients of the copy still to visit, up to the next socket
\* write or to the end of the loop: a client that is not in the registry when
\* the loop comes to it is passed over.
ChannelScan(cm, todo) ==
  LET pass == {c \in todo : cm.connections[c].connected}
  IN IF pass # {}
       THEN {[pc |-> "sending", client |-> c, todo |-> todo \ ({c} \cup skipped),
              skipped |-> skipped] : c \in pass, skipped \in SUBSET (todo \ pass)}
       ELSE {[pc |-> "done", client |-> NoClient, todo |-> {}, skipped |-> todo]}

\* `for client_id in disconnected: self.disconnect(client_id)`.
RECURSIVE DisconnectAll(_, _)
DisconnectAll(cm, disconnected) ==
  IF disconnected = {} THEN cm
  ELSE LET c == CHOOSE x \in disconnected : TRUE
       IN DisconnectAll(disconnect(cm, c), disconnected \ {c})

\* The state of the call at position pos of its loop; past the loop the clients
\* whose write raised are disconnected and the count is returned.
ChannelCastAt(cc, pos) ==
  LET cm == IF pos.pc = "done" THEN DisconnectAll(CM, cc.disconnected) ELSE CM
  IN /\ channel_cast' = [cc EXCEPT !.pc = pos.pc, !.client = pos.client, !.todo = pos.todo,
                                   !.skipped = @ \cup pos.skipped,
                                   !.attempted = @ \cup ({pos.client} \cap Clients)]
     /\ connections' = cm.connections
     /\ channel_subscribers' = cm.channel_subscribers
     /\ UNCHANGED <<tickets, repo, queues, ticket_queue_map, audit_log, assignments,
                    scheduled, inflight, now, lock, call, cast, cast_b, sweep, claiming>>

\* broadcast_to_channel(channel, message) up to its first socket write.
BroadcastToChannelStart(channel) ==
  /\ channel_cast.pc = "done"
  /\ \E pos \in ChannelScan(CM, Subscribers(CM, channel)) :
       ChannelCastAt([NoChannelCast EXCEPT !.channel = channel,
                                           !.snapshot = Subscribers(CM, channel)], pos)

\* The write returns or raises: the client is counted, or noted in `disconnected`.
BroadcastToChannelResume(success) ==
  LET c == channel_cast.client
      cc == IF success
              THEN [channel_cast EXCEPT !.sent_count = @ + 1, !.written = @ \cup {c}]
              ELSE [channel_cast EXCEPT !.disconnected = @ \cup {c}]
  IN /\ channel_cast.pc = "sending"
     /\ \E pos \in ChannelScan(CM, channel_cast.todo) : ChannelCastAt(cc, pos)

NextChannel ==
  \/ \E c \in Clients : Connect(c)
  \/ \E c \in Clients, ch \in Channels : Subscribe(c, ch)
  \/ \E c \in Clients, ch \in Channels : Unsubscribe(c, ch)
  \/ \E c \in Clients : Disconnect(c)
  \/ \E ch \in Channels : BroadcastToChannelStart(ch)
  \/ \E success \in BOOLEAN : BroadcastToChannelResume(success)

SpecChannel == Init /\ [][NextChannel]_vars

\* ------------------------------------------------------------- the auto-close task
\* tasks.py, run_auto_close_task: a pass every minute over the RESOLVED tickets.
AutoCloseMinutes == 5
FindLimit == 100

SeqRange(s) == {s[k] : k \in 1..Len(s)}

\* results.sort(key=created_at, reverse=True): newest first, tickets created at
\* the same time in the order of the repository, which is the order of creation.
RECURSIVE NewestFirst(_)
NewestFirst(ids) ==
  IF ids = {} THEN <<>>
  ELSE LET id == CHOOSE x \in ids :
                   \A y \in ids : \/ tickets[y].created_at < tickets[x].created_at
                                  \/ tickets[y].created_at = tickets[x].created_at /\ x <= y
       IN <<id>> \o NewestFirst(ids \ {id})

\* ticket_repository.find(status=...): the filter, the sort, the slice.
find(status) ==
  SubSeq(NewestFirst({id \in repo : tickets[id].status = status}), 1,
         Min(FindLimit, Cardinality({id \in repo : tickets[id].status = status})))

\* Mutation: a ticket updated exactly at the cutoff is closed too.
due_at_cutoff(t, cutoff_time) == t.updated_at <= cutoff_time

\* `if ticket.updated_at < cutoff_time`.
due(t, cutoff_time) == t.updated_at < cutoff_time

\* The loop over resolved_tickets up to the first ticket it closes: a ticket that
\* is not due is passed over, and so is one whose close() raises, which the inner
\* except logs. id 0: the loop ran to its end.
RECURSIVE NextClose(_, _)
NextClose(resolved_tickets, cutoff_time) ==
  IF resolved_tickets = <<>> THEN [id |-> 0, rest |-> <<>>]
  ELSE LET id == Head(resolved_tickets)
       IN IF due(tickets[id], cutoff_time) /\ close_ok(tickets[id])
            THEN [id |-> id, rest |-> Tail(resolved_tickets)]
            ELSE NextClose(Tail(resolved_tickets), cutoff_time)

\* The pass from one suspension to the next: it closes and saves a ticket and
\* suspends in publish_ticket_updated, or finds nothing more and sleeps a minute.
AutoCloseRun(sw) ==
  LET n == NextClose(sw.resolved_tickets, sw.cutoff_time)
  IN /\ IF n.id = 0
          THEN /\ sweep' = [sw EXCEPT !.pc = "sleeping", !.wake_at = now + 1,
                                      !.resolved_tickets = <<>>]
               /\ UNCHANGED <<tickets, repo>>
          ELSE /\ sweep' = [sw EXCEPT !.pc = "publishing", !.resolved_tickets = n.rest,
                                      !.closed = @ \cup {n.id}]
               /\ tickets' = [tickets EXCEPT ![n.id] = close(@)]
               /\ repo' = repo \cup {n.id}
     /\ UNCHANGED <<queues, ticket_queue_map, audit_log, assignments, scheduled, inflight,
                    now, lock, call, bus, claiming>>

\* asyncio.sleep(60) is over: find, now, cutoff_time, and the loop.
AutoCloseWake ==
  /\ sweep.pc = "sleeping"
  /\ now >= sweep.wake_at
  /\ AutoCloseRun([sweep EXCEPT !.resolved_tickets = find("RESOLVED"), !.now = now,
                                !.cutoff_time = now - AutoCloseMinutes,
                                !.found = SeqRange(find("RESOLVED")), !.closed = {}])

\* publish_ticket_updated returns or raises: the loop goes on.
AutoCloseResume == sweep.pc = "publishing" /\ AutoCloseRun(sweep)

Tick ==
  /\ now < MaxNow
  /\ now' = now + 1
  /\ UNCHANGED <<tickets, repo, queues, ticket_queue_map, audit_log, assignments,
                 scheduled, inflight, lock, call, bus, sweep, claiming>>

Reopen == [NoPatch EXCEPT !.status = "IN_PROGRESS"]

NextAutoClose ==
  \/ Room(MaxAuditAutoClose) /\ Ingest("MEDIUM", None)
  \/ \E id \in Ids : Room(MaxAuditAutoClose) /\ Resolve(id, "MANUAL")
  \/ \E id \in Ids : Patch(id, Reopen)
  \/ \E id \in Ids : Delete(id)
  \/ Tick
  \/ AutoCloseWake
  \/ AutoCloseResume

SpecAutoClose == Init /\ [][NextAutoClose]_vars

\* ------------------------------------------------------------- the running application
\* main.py serves create_app(): the three routers and the tasks their handlers
\* create. Nothing calls run_auto_close_task, so no step of it is a step of the
\* application. The event loop runs every task that is ready and the clock
\* advances; when a request arrives is up to the clients.
NextRunning ==
  \/ IngestRoute(MaxAudit)
  \/ TriageTask(1..MaxIngest, MaxAudit)
  \/ \E id \in 1..MaxIngest : Room(MaxAudit) /\ Resolve(id, "MANUAL")
  \/ \E id \in 1..MaxIngest : Patch(id, Reopen)
  \/ Tick

SpecRunning ==
  /\ Init
  /\ [][NextRunning]_vars
  /\ WF_vars(TriageTask(1..MaxIngest, MaxAudit))
  /\ WF_vars(Tick)

\* ------------------------------------------------------------- delete beside distribution
\* DELETE /api/tickets/{id} among the distribution and queue routes.
NextDelete ==
  \/ IngestRoute(MaxAuditDistribution)
  \/ TriageTask(1..MaxIngest, MaxAuditDistribution)
  \/ \E id \in 1..MaxIngest : TriageStartFail(id)
  \/ DistributionRoutes(1..MaxIngest, MaxAuditDistribution)
  \/ QueueRoutes(1..MaxIngest, MaxAuditDistribution)
  \/ \E id \in 1..MaxIngest : Delete(id)

SpecDelete == Init /\ [][NextDelete]_vars

\* ------------------------------------------------------------- what the classifier can answer
\* The triage task against answers with enum strings the models do not know,
\* beside the other keys of a result.
ClassifierAnswers ==
  TriageResults \cup
    { [priority |-> "URGENT", category |-> "BILLING", confidence |-> 90,
       suggested_assignee |-> "a1", tags |-> <<"coding">>],
      [priority |-> "HIGH", category |-> "SPAM", confidence |-> 50,
       suggested_assignee |-> "a2", tags |-> <<"coding", "vip">>],
      [priority |-> "URGENT", category |-> "SPAM", confidence |-> 80,
       suggested_assignee |-> None, tags |-> <<"vip">>] }

NextClassifier ==
  \/ IngestRoute(MaxAuditClassifier)
  \/ \E id \in repo : Room(MaxAuditClassifier) /\ QEnqueue(id, INBOX)
  \/ \E id \in 1..MaxIngest : TriageStart(id)
  \/ \E id \in 1..MaxIngest : TriageFail(id)
  \/ \E id \in 1..MaxIngest, r \in ClassifierAnswers :
       Room(MaxAuditClassifier) /\ TriageApply(id, r)

SpecClassifier == Init /\ [][NextClassifier]_vars

\* ------------------------------------------------------------- reading the audit log
\* s[start:] of a Python list: a negative start counts from the end, and both
\* ends are clipped to the list.
SliceFrom(s, start) ==
  LET from == IF start < 0 THEN (IF Len(s) + start > 0 THEN Len(s) + start ELSE 0)
              ELSE Min(start, Len(s))
  IN SubSeq(s, from + 1, Len(s))

\* [e for e in entries if e.ticket_id == ticket_id]
RECURSIVE EntriesOf(_, _)
EntriesOf(entries, ticket_id) ==
  IF entries = <<>> THEN <<>>
  ELSE (IF Head(entries).ticket_id = ticket_id THEN <<Head(entries)>> ELSE <<>>)
         \o EntriesOf(Tail(entries), ticket_id)

\* `ticket_id: Optional[str] = None`: the call that names no ticket.
NoTicket == 0

\* get_audit_log(ticket_id, limit): `entries[-limit:]`, and -0 is 0.
get_audit_log(ticket_id, limit) ==
  SliceFrom(IF ticket_id # NoTicket THEN EntriesOf(audit_log, ticket_id) ELSE audit_log,
            0 - limit)

\* A call of get_audit_log: it returns a new list and writes nothing.
GetAuditLog(ticket_id, limit) ==
  /\ Len(get_audit_log(ticket_id, limit)) >= 0
  /\ UNCHANGED vars

NextAudit ==
  \/ \E id \in Ids, q \in QueueType : Room(MaxAuditQM) /\ QEnqueue(id, q)
  \/ \E id \in Ids, f \in QueueType, g \in QueueType : Room(MaxAuditQM) /\ QMove(id, f, g)
  \/ \E id \in Ids \cup {NoTicket}, limit \in 0..MaxLimit : GetAuditLog(id, limit)

SpecAudit == InitQM /\ [][NextAudit]_vars

\* ------------------------------------------------------------- claim_ticket, call by call
\* POST /api/distribution/claim by two agents, each request advancing one
\* component call at a time: peek_queue, repository get, move_ticket, tracker
\* assign and repository save each take their own lock and release it on return,
\* and no lock spans two of them.
ClaimingAt(a, pc) == claiming[a].pc = pc

ClaimingEnds(a, success) ==
  claiming' = [claiming EXCEPT ![a].pc = "done", ![a].success = success]

\* queue_manager.peek_queue(ASSIGNMENT, limit=20, priority_based=True).
ClaimPeek(a) ==
  LET ticket_ids == peek_queue(ASSIGNMENT, ClaimPeekLimit, TRUE)
  IN /\ ClaimingAt(a, "idle")
     /\ IF ticket_ids = <<>>
          THEN ClaimingEnds(a, FALSE)
          ELSE claiming' = [claiming EXCEPT ![a].pc = "peeked", ![a].ticket_ids = ticket_ids]
     /\ UNCHANGED <<tickets, repo, queues, ticket_queue_map, audit_log, assignments,
                    scheduled, inflight, now, lock, call, bus, sweep>>

\* The loop over the peeked ids: ticket_repository.get and the filters.
ClaimFind(a) ==
  LET tid == ClaimPick(claiming[a].ticket_ids, ClaimAny(a))
  IN /\ ClaimingAt(a, "peeked")
     /\ IF tid \in Ids
          THEN claiming' = [claiming EXCEPT ![a].pc = "found", ![a].claimed_ticket = tid]
          ELSE ClaimingEnds(a, FALSE)
     /\ UNCHANGED <<tickets, repo, queues, ticket_queue_map, audit_log, assignments,
                    scheduled, inflight, now, lock, call, bus, sweep>>

\* claimed_ticket.assign, claimed_ticket.move_to_queue(ACTIVE) and
\* queue_manager.move_ticket, whose return value the handler drops.
ClaimMove(a) ==
  LET tid == claiming[a].claimed_ticket
      steps == ClaimSteps(tickets[tid], a)
      m == move_ticket(tid, ASSIGNMENT, ACTIVE, Last(steps), Reason("claimed by agent"), a)
  IN /\ ClaimingAt(a, "found")
     /\ tickets' = [tickets EXCEPT ![tid] = Last(steps)]
     /\ IF Len(steps) = 3
          THEN /\ queues' = m.queues
               /\ ticket_queue_map' = m.map
               /\ audit_log' = m.audit
               /\ claiming' = [claiming EXCEPT ![a].pc = "moved"]
          ELSE /\ ClaimingEnds(a, FALSE)
               /\ UNCHANGED <<queues, ticket_queue_map, audit_log>>
     /\ UNCHANGED <<repo, assignments, scheduled, inflight, now, lock, call, bus, sweep>>

\* assignment_tracker.assign(request.agent_id, claimed_ticket.id).
ClaimTrack(a) ==
  /\ ClaimingAt(a, "moved")
  /\ assignments' = [assignments EXCEPT ![a] = @ \cup {claiming[a].claimed_ticket}]
  /\ claiming' = [claiming EXCEPT ![a].pc = "tracked"]
  /\ UNCHANGED <<tickets, repo, queues, ticket_queue_map, audit_log,
                 scheduled, inflight, now, lock, call, bus, sweep>>

\* ticket_repository.save(claimed_ticket) and the ClaimResponse(success=True).
ClaimSave(a) ==
  /\ ClaimingAt(a, "tracked")
  /\ repo' = repo \cup {claiming[a].claimed_ticket}
  /\ ClaimingEnds(a, TRUE)
  /\ UNCHANGED <<tickets, queues, ticket_queue_map, audit_log, assignments,
                 scheduled, inflight, now, lock, call, bus, sweep>>

NextClaim ==
  \/ Len(tickets) < MaxTickets /\ Room(MaxAuditClaim) /\ Ingest("MEDIUM", None)
  \/ TriageTask(Ids, MaxAuditClaim)
  \/ \E a \in Agents : ClaimPeek(a)
  \/ \E a \in Agents : ClaimFind(a)
  \/ \E a \in Agents : Room(MaxAuditClaim) /\ ClaimMove(a)
  \/ \E a \in Agents : ClaimTrack(a)
  \/ \E a \in Agents : ClaimSave(a)

SpecClaim == Init /\ [][NextClaim]_vars

\* ------------------------------------------------------------- claims
Created == 1..Len(tickets)

\* C1: in every reachable state every ticket whose status is not CLOSED has the
\* status that QUEUE_STATUS_MAP gives for its current_queue field.
C1_StatusFollowsQueue ==
  \A id \in Created :
    tickets[id].status # "CLOSED"
      => tickets[id].status = QUEUE_STATUS_MAP(tickets[id].current_queue)

\* A sequence of ticket snapshots changes the status only along the table or to INBOX.
LegalSteps(steps) ==
  \A i \in 1..(Len(steps) - 1) :
    \/ steps[i + 1].status = steps[i].status
    \/ steps[i + 1].status = "INBOX"
    \/ steps[i + 1].status \in VALID_TRANSITIONS(steps[i].status)

\* C2: every status write the ticket routes perform (ingest, PATCH, resolve, the
\* triage continuation, the queue move) goes from s1 to s2 with s2 in the
\* legal-transition table entry of s1, or s2 = INBOX.
C2_StatusWritesFollowTable ==
  [][/\ Ingest("MEDIUM", None) => LegalSteps(IngestSteps("MEDIUM", None))
     /\ \A id \in Created :
          /\ \A req \in PatchRequests :
               Patch(id, req) => LegalSteps(PatchSteps(tickets[id], req))
          /\ Resolve(id, "MANUAL") => LegalSteps(ResolveSteps(tickets[id], "MANUAL"))
          /\ \A r \in TriageResults :
               TriageApply(id, r) => LegalSteps(ApplySteps(tickets[id], r))
          /\ \A f \in QueueType, g \in QueueType :
               Move(id, f, g) => LegalSteps(<<tickets[id], move_to_queue(tickets[id], g)>>)]_vars

\* Number of entries of ticket id across the five queues.
RECURSIVE CountIn(_, _)
CountIn(s, id) ==
  IF s = <<>> THEN 0
  ELSE (IF Head(s).ticket_id = id THEN 1 ELSE 0) + CountIn(Tail(s), id)

Entries(id) ==
  CountIn(queues[INBOX], id) + CountIn(queues[TRIAGE], id)
    + CountIn(queues[ASSIGNMENT], id) + CountIn(queues[ACTIVE], id)
    + CountIn(queues[RESOLUTION], id)

\* C3: in every reachable state each ticket id has at most one entry across the
\* five queues taken together.
C3_AtMostOneEntry == \A id \in Ids : Entries(id) <= 1

\* The step is a successful resolution of ticket id: POST resolve, or a PATCH
\* with status RESOLVED on a ticket that is not RESOLVED yet.
Resolution(id) ==
  \/ Resolve(id, "MANUAL")
  \/ \E req \in PatchRequests : PatchResolves(tickets[id], req) /\ Patch(id, req)

\* C4: a successful resolution of a ticket whose entry is in a queue other than
\* RESOLUTION leaves the entry in RESOLUTION, no longer in the previous queue,
\* and the audit log one transition entry (previous queue to RESOLUTION) longer.
C4_ResolveMovesEntry ==
  [][\A id \in Created, q \in QueueType \ {RESOLUTION} :
       (HasEntry(q, id) /\ Resolution(id))
         => /\ CountIn(queues'[RESOLUTION], id) = 1
            /\ CountIn(queues'[q], id) = 0
            /\ Len(audit_log') = Len(audit_log) + 1
            /\ audit_log'[Len(audit_log')].ticket_id = id
            /\ audit_log'[Len(audit_log')].from_queue = q
            /\ audit_log'[Len(audit_log')].to_queue = RESOLUTION]_vars

\* Agent a has just claimed ticket id: the claim's transition is the last audit
\* entry and the ticket and its entry are in ACTIVE.
JustClaimed(id, a) ==
  /\ audit_log # <<>>
  /\ Last(audit_log).ticket_id = id
  /\ Last(audit_log).from_queue = ASSIGNMENT
  /\ Last(audit_log).to_queue = ACTIVE
  /\ Last(audit_log).actor = a
  /\ Last(audit_log).reason = Reason("claimed by agent")
  /\ tickets[id].assignee = a
  /\ tickets[id].current_queue = ACTIVE
  /\ HasEntry(ACTIVE, id)

\* C5: when an agent has claimed a ticket and releases it with retriage=true, the
\* ticket's ai_reasoning, category, priority and suggested_assignee are cleared,
\* its queue entry is back in INBOX, and a new triage task is scheduled for it.
C5_ReleaseRetriageRefires ==
  [][\A id \in Created, a \in Agents :
       (JustClaimed(id, a) /\ Release(id, a, TRUE))
         => /\ tickets'[id].ai_reasoning = EmptyReasoning
            /\ tickets'[id].category = None
            /\ tickets'[id].priority = None
            /\ tickets'[id].suggested_assignee = None
            /\ CountIn(queues'[INBOX], id) = 1
            /\ CountIn(queues'[ACTIVE], id) = 0
            /\ scheduled'[id] = scheduled[id] + 1]_vars

\* The step appended an audit entry for ticket id from queue f to queue g.
Logged(id, f, g) ==
  /\ Len(audit_log') = Len(audit_log) + 1
  /\ audit_log'[Len(audit_log')].ticket_id = id
  /\ audit_log'[Len(audit_log')].from_queue = f
  /\ audit_log'[Len(audit_log')].to_queue = g

\* C6: a triage task is scheduled for a ticket exactly by the steps that enqueue it
\* into INBOX (the audit entry with no source queue and target INBOX), one task
\* per such step; enqueue into another queue, move_ticket into INBOX, dequeue and
\* remove_from_queue schedule none.
C6_TaskExactlyOnInboxEnqueue ==
  [][\A id \in Ids :
       IF Logged(id, None, INBOX)
         THEN scheduled'[id] = scheduled[id] + 1
         ELSE scheduled'[id] <= scheduled[id]]_vars

\* Ticket 1 was enqueued into TRIAGE and moved into INBOX with no task scheduled,
\* ticket 2 was enqueued into INBOX and has its task scheduled.
C6_Witness ==
  /\ Len(audit_log) = 3
  /\ \E i \in 1..3 : audit_log[i].ticket_id = 1 /\ audit_log[i].from_queue = None
                     /\ audit_log[i].to_queue = TRIAGE
  /\ \E i \in 1..3 : audit_log[i].ticket_id = 1 /\ audit_log[i].from_queue = TRIAGE
                     /\ audit_log[i].to_queue = INBOX
  /\ HasEntry(INBOX, 1) /\ HasEntry(INBOX, 2)
  /\ scheduled[1] = 0 /\ inflight[1] = 0
  /\ scheduled[2] = 1

\* The step moved one entry of ticket id from queue f to queue g and logged it.
MovedEntry(id, f, g) ==
  /\ CountIn(queues'[f], id) = CountIn(queues[f], id) - 1
  /\ CountIn(queues'[g], id) = CountIn(queues[g], id) + 1
  /\ \A q \in QueueType \ {f, g} : CountIn(queues'[q], id) = CountIn(queues[q], id)
  /\ ticket_queue_map'[id] = g
  /\ Logged(id, f, g)

\* C7: a triage result with confidence c applied to a ticket whose entry is in
\* INBOX moves the entry INBOX->ASSIGNMENT iff c >= 0.8 (0.8 included), and
\* INBOX->TRIAGE otherwise, a result without confidence included.
C7_ConfidenceRoutes ==
  [][\A id \in Ids, r \in TriageResults :
       (HasEntry(INBOX, id) /\ TriageApply(id, r))
         => IF r.confidence # Absent /\ r.confidence >= 80
              THEN MovedEntry(id, INBOX, ASSIGNMENT)
              ELSE MovedEntry(id, INBOX, TRIAGE)]_vars

\* A result with confidence exactly 0.8 has been routed to ASSIGNMENT while the
\* other ticket waits in INBOX.
C7_Witness ==
  /\ \E i \in 1..Len(audit_log) :
       /\ audit_log[i].ticket_id = 2
       /\ audit_log[i].from_queue = INBOX /\ audit_log[i].to_queue = ASSIGNMENT
       /\ audit_log[i].reason.conf = 80
  /\ HasEntry(ASSIGNMENT, 2)
  /\ HasEntry(INBOX, 1)

\* Ticket id is as ingest left it, with its one entry in INBOX.
Fresh(id) ==
  /\ id \in Created
  /\ tickets[id] = Last(IngestSteps(tickets[id].priority, None))
  /\ get_ticket_queue(id) = INBOX
  /\ CountIn(queues[INBOX], id) = 1
  /\ Entries(id) = 1

\* C8: a triage result with confidence >= 0.8 applied to a freshly ingested ticket
\* leaves status ASSIGNED, the queue entry in ASSIGNMENT, the assignee equal to the
\* suggested assignee when one is named (unchanged otherwise), and an
\* INBOX->ASSIGNMENT audit entry whose reason carries the confidence.
C8_HighConfidenceOutcome ==
  [][\A id \in Created, r \in TriageResults :
       (Fresh(id) /\ r.confidence # Absent /\ r.confidence >= 80 /\ TriageApply(id, r))
         => /\ tickets'[id].status = "ASSIGNED"
            /\ CountIn(queues'[ASSIGNMENT], id) = 1
            /\ CountIn(queues'[INBOX], id) = 0
            /\ ticket_queue_map'[id] = ASSIGNMENT
            /\ tickets'[id].assignee =
                 (IF r.suggested_assignee # None THEN r.suggested_assignee
                  ELSE tickets[id].assignee)
            /\ Logged(id, INBOX, ASSIGNMENT)
            /\ audit_log'[Len(audit_log')].reason.conf = r.confidence]_vars

\* The fresh ticket was auto-assigned to the suggested agent at confidence 0.9.
C8_Witness ==
  /\ Len(audit_log) = 2
  /\ audit_log[2].from_queue = INBOX /\ audit_log[2].to_queue = ASSIGNMENT
  /\ audit_log[2].reason.conf = 90
  /\ tickets[1].status = "ASSIGNED"
  /\ tickets[1].assignee = "a1"
  /\ HasEntry(ASSIGNMENT, 1)

\* C9: a triage result with confidence < 0.8 applied to a ticket whose entry is in
\* INBOX (the ticket as ingest left it) leaves the ticket in TRIAGE (queue entry
\* and current_queue field), status TRIAGE_PENDING, the suggested assignee
\* recorded and the assignee null.
C9_LowConfidenceOutcome ==
  [][\A id \in Created, r \in TriageResults :
       (Fresh(id) /\ ~(r.confidence # Absent /\ r.confidence >= 80) /\ TriageApply(id, r))
         => /\ CountIn(queues'[TRIAGE], id) = 1
            /\ tickets'[id].current_queue = TRIAGE
            /\ tickets'[id].status = "TRIAGE_PENDING"
            /\ r.suggested_assignee # None
                 => tickets'[id].suggested_assignee = r.suggested_assignee
            /\ tickets'[id].assignee = None]_vars

\* The triage task of ticket id ends without a classifier answer.
ClassifierFailed(id) == TriageFail(id) \/ TriageStartFail(id)

\* C10: when the classifier call fails or times out the triage task changes
\* nothing: queue entries, tickets and audit log stay as they are; and while a
\* task is pending or waiting for the classifier the queue manager's operations
\* stay enabled.
C10_FailureChangesNothing ==
  /\ [][\A id \in Created :
          ClassifierFailed(id)
            => UNCHANGED <<tickets, repo, queues, ticket_queue_map, audit_log, assignments>>]_vars
  /\ [](\A id \in Created :
          (scheduled[id] > 0 \/ inflight[id] > 0)
            => \A q \in QueueType :
                 /\ ENABLED QEnqueue(id, q)
                 /\ ENABLED QMove(id, INBOX, q)
                 /\ ENABLED QRemove(id, q)
                 /\ \A pb \in BOOLEAN : ENABLED Dequeue(q, pb))

\* The only triage task of the ingested ticket is over, and the ticket, its INBOX
\* entry and the one-entry audit log are as ingest left them.
C10_Witness ==
  /\ Fresh(1)
  /\ Len(audit_log) = 1
  /\ scheduled[1] = 0 /\ inflight[1] = 0

\* The step starts, resumes or ends a triage task of ticket id.
ContinuationStep(id) ==
  scheduled'[id] < scheduled[id] \/ inflight'[id] # inflight[id]

\* C11: the triage task of an INBOX enqueue never runs while that enqueue holds
\* the queue-manager lock: every step of a task is taken with the lock free and no
\* enqueue call in progress, and whoever holds the lock can always take its next
\* step, so the lock is released again.
C11_TaskRunsOutsideLock ==
  /\ [][\A id \in Ids : ContinuationStep(id) => lock = "free" /\ call = NoCall]_vars
  /\ [](lock = "held" => call # NoCall /\ ENABLED (EnqueueCommit \/ EnqueueReturn))

\* The enqueue into INBOX has created its task and still holds the lock.
C11_Witness ==
  /\ lock = "held"
  /\ call.pc = "committed" /\ call.queue = INBOX
  /\ scheduled[call.id] = 1

\* C12: move_ticket(id, from, to, ...) called when queue `from` holds no entry
\* for id returns false and leaves the five queues, the index and the audit log
\* exactly as they were.
C12_MissedMoveChangesNothing ==
  \A id \in Ids, f \in QueueType, g \in QueueType :
    CountIn(queues[f], id) = 0
      => LET m == move_ticket(id, f, g, tickets[id], Reason("move"), None)
         IN /\ ~m.ok
            /\ m.queues = queues
            /\ m.map = ticket_queue_map
            /\ m.audit = audit_log

\* Ticket 1 sits in TRIAGE with an audit history, so a move out of INBOX misses.
C12_Witness ==
  /\ CountIn(queues[INBOX], 1) = 0
  /\ CountIn(queues[TRIAGE], 1) = 1
  /\ ticket_queue_map[1] = TRIAGE
  /\ Len(audit_log) >= 2

\* The audit log a grew from the audit log by exactly one entry, for ticket id
\* from queue f to queue g.
OneEntryMore(a, id, f, g) ==
  /\ Len(a) = Len(audit_log) + 1
  /\ SubSeq(a, 1, Len(audit_log)) = audit_log
  /\ a[Len(a)].ticket_id = id
  /\ a[Len(a)].from_queue = f
  /\ a[Len(a)].to_queue = g

\* C13: every enqueue appends exactly one audit entry with no source queue and
\* the target queue, every successful move_ticket exactly one with its two
\* arguments; in both cases the ticket's entry is afterwards the last element of
\* the target queue and the index maps the id to the target queue.
C13_EnqueueAndMoveLogOnce ==
  \A id \in Ids, g \in QueueType :
    /\ LET e == enqueue(id, tickets[id], g, Reason("enqueue"), None)
       IN /\ OneEntryMore(e.audit, id, None, g)
          /\ Last(e.queues[g]).ticket_id = id
          /\ Len(e.queues[g]) = Len(queues[g]) + 1
          /\ e.map[id] = g
    /\ \A f \in QueueType :
         LET m == move_ticket(id, f, g, tickets[id], Reason("move"), None)
         IN m.ok => /\ OneEntryMore(m.audit, id, f, g)
                    /\ Last(m.queues[g]).ticket_id = id
                    /\ m.map[id] = g

\* Both tickets are queued in TRIAGE, ticket 1 behind ticket 2 after its move.
C13_Witness ==
  /\ Len(queues[TRIAGE]) = 2
  /\ queues[TRIAGE][1].ticket_id = 2
  /\ queues[TRIAGE][2].ticket_id = 1
  /\ Last(audit_log).ticket_id = 1
  /\ Last(audit_log).from_queue = INBOX
  /\ Last(audit_log).to_queue = TRIAGE

\* C14: every dequeue that removes an entry from a queue makes the audit log
\* grow by exactly one entry.
C14_DequeueIsLogged ==
  [][\A q \in QueueType, pb \in BOOLEAN :
       (queues[q] # <<>> /\ Dequeue(q, pb))
         => Len(audit_log') = Len(audit_log) + 1]_vars

\* C15: dequeue(queue, priority_based=true) on a non-empty queue removes exactly
\* one entry and returns its ticket id, and that entry's stored score is at least
\* the score of every entry that was in the queue, for one entry as for several.
C15_DequeueTakesMaxScore ==
  \A q \in QueueType :
    queues[q] # <<>>
      => LET d == dequeue(q, TRUE)
         IN \E i \in 1..Len(queues[q]) :
              /\ d.queues[q] = RemoveAt(queues[q], i)
              /\ ~d.raised
              /\ d.result = queues[q][i].ticket_id
              /\ \A j \in 1..Len(queues[q]) :
                   queues[q][j].priority_score <= queues[q][i].priority_score

\* C16: dequeue(queue, priority_based=false) on a non-empty queue removes and
\* returns the id of the most recently appended entry, whatever the scores are.
C16_DequeueTakesNewest ==
  \A q \in QueueType :
    queues[q] # <<>>
      => LET d == dequeue(q, FALSE)
         IN /\ d.queues[q] = SubSeq(queues[q], 1, Len(queues[q]) - 1)
            /\ ~d.raised
            /\ d.result = queues[q][Len(queues[q])].ticket_id

\* C17: every mutation of a ticket's workflow state (creation, queue move,
\* assignment, update, resolution, and the routing done by the automatic triage
\* continuation) is followed by the publication of a corresponding event.
C17_MutationsArePublished ==
  [][/\ Ingest("MEDIUM", None) => "ticket.created" \in add_task(IngestPublishes).events
     /\ \A id \in Created :
          /\ \A r \in TriageResults :
               (TriageApply(id, r) /\ queues' # queues)
                 => "ticket.moved" \in add_task(ApplyPublishes).events
          /\ \A req \in TriageCompleteRequests :
               TriageComplete(id, req)
                 => "ticket.moved" \in add_task(TriageCompletePublishes).events
          /\ \A req \in PatchRequests :
               Patch(id, req) => add_task(PatchPublishes(tickets[id], req)).events # {}
          /\ Resolve(id, "MANUAL") => add_task(ResolvePublishes).events # {}
          /\ \A f \in QueueType, g \in QueueType :
               Move(id, f, g) => "ticket.moved" \in add_task(MovePublishes).events
     /\ Claim(ClaimAny("a1")) => "ticket.assigned" \in add_task(ClaimPublishes).events]_vars

\* C18: a successful POST /api/tickets/{id}/resolve, and a PATCH that sets status
\* RESOLVED, marks the ticket RESOLVED, completes with a success response and
\* leads to a ticket.resolved event.
C18_ResolvePublishesResolved ==
  [][\A id \in repo :
       /\ Resolve(id, "MANUAL")
            => /\ tickets'[id].status = "RESOLVED"
               /\ ~add_task(ResolvePublishes).raised
               /\ "ticket.resolved" \in add_task(ResolvePublishes).events
       /\ \A req \in PatchRequests :
            (PatchResolves(tickets[id], req) /\ Patch(id, req))
              => /\ tickets'[id].status = "RESOLVED"
                 /\ ~add_task(PatchPublishes(tickets[id], req)).raised
                 /\ "ticket.resolved" \in add_task(PatchPublishes(tickets[id], req)).events]_vars

\* C19: when a PATCH, resolve, triage_complete, queue move or claim attempts an
\* illegal status transition, the request fails and nothing is partially applied:
\* the ticket, the queues, the index, the audit log and the assignment tracker
\* are exactly as they were before the request.
C19_IllegalTransitionChangesNothing ==
  [][(\/ \E id \in repo, req \in PatchRequests : PatchError(id, req)
      \/ \E id \in repo : ResolveError(id)
      \/ \E id \in repo, req \in TriageCompleteRequests : TriageCompleteError(id, req)
      \/ \E id \in repo, f \in QueueType : MoveRejected(id, f, ACTIVE)
      \/ ClaimError(ClaimAny("a1")))
       => UNCHANGED <<tickets, queues, ticket_queue_map, audit_log, assignments>>]_vars

\* C20: for one broadcast_event call with channel list L, every connected client
\* subscribed to at least one channel of L whose socket write succeeds receives
\* the frame exactly once, however many channels of L it is subscribed to, and a
\* client subscribed to no channel of L receives nothing. The clients meant are
\* those that did not connect, subscribe, unsubscribe or disconnect during the call.
C20_BroadcastDeliversOnce ==
  cast.pc = "done"
    => \A c \in cast.steady :
         /\ cast.delivered[c] <= 1
         /\ (c \in cast.targets /\ c \notin cast.failed) => cast.delivered[c] = 1
         /\ c \notin cast.targets => cast.delivered[c] = 0

\* The channels every event about ticket id is broadcast to.
TicketChannels(id) ==
  {"all", "tickets.all", TicketChannel(id), QueueChannel(tickets[id].current_queue)}

\* What the publisher does for the events about tickets: their channel list
\* contains all, tickets.all, ticket.{id} and queue.{current}, for a move also
\* queue.{from} and queue.{to}, for an assignment also agent.{assignee}.
TicketEventChannels ==
  \A id \in repo :
    /\ \A ev \in TicketEvents(id) : TicketChannels(id) \subseteq ChannelsOf(ev.channels)
    /\ \A f \in QueueType, g \in QueueType :
         {QueueChannel(f), QueueChannel(g)}
           \subseteq ChannelsOf(publish_ticket_moved(id, f, g).channels)
    /\ \A a \in Agents \cup {None} :
         AgentChannel(a) \in ChannelsOf(publish_ticket_assigned(id, a).channels)

\* C21: for every event type the publisher emits, queue.stats included, the
\* channel list contains both all and tickets.all; with ticket.{id} and
\* queue.{current} when a ticket is involved, queue.{from} and queue.{to} for
\* moves, agent.{assignee} for assignments.
C21_EveryEventOnTicketsAll ==
  /\ TicketEventChannels
  /\ \A q \in QueueType :
       {"all", "tickets.all"} \subseteq ChannelsOf(publish_queue_stats(q).channels)

\* C21 as amended: the events about tickets go to all, tickets.all, ticket.{id},
\* queue.{current} and their extra channels; queue.stats goes to all and to
\* queue.{queue} only.
C21_TicketEventsOnTicketsAll ==
  /\ TicketEventChannels
  /\ \A q \in QueueType :
       ChannelsOf(publish_queue_stats(q).channels) = {"all", QueueChannel(q)}

\* The broadcast of ticket.moved INBOX -> ASSIGNMENT for ticket 1, now in
\* ASSIGNMENT, is in its first socket write.
C21_Witness ==
  /\ 1 \in repo
  /\ tickets[1].current_queue = ASSIGNMENT
  /\ cast.pc = "sending"
  /\ cast.channels = <<"all", "tickets.all", "ticket.1", "queue.ASSIGNMENT",
                       "queue.INBOX", "queue.ASSIGNMENT">>

\* C22: if event A's broadcast is started before event B's and a client is a
\* recipient of both, the client receives A before B, for every interleaving of
\* the two broadcasts at their socket writes: a client that got the frame of
\* both was written to by the first broadcast before the second wrote to it.
C22_DeliveryKeepsEmissionOrder ==
  \A c \in Clients :
    (cast.delivered[c] = 1 /\ cast_b.delivered[c] = 1) => c \notin cast_b.overtook

\* C23: after disconnect(id), for any preceding sequence of connect, subscribe,
\* unsubscribe and broadcast operations (a second connect with the same id
\* included), id is absent from the client registry and from the subscriber set
\* of every channel.
C23_DisconnectPurges ==
  [][\A c \in Clients :
       Disconnect(c) => /\ ~connections'[c].connected
                        /\ \A ch \in Channels : c \notin channel_subscribers'[ch]]_vars

\* A step of broadcast_to_channel inside its loop, and the step that ends it.
ChannelCastContinues ==
  channel_cast'.pc = "sending" /\ channel_cast'.attempted # channel_cast.attempted

ChannelCastEnds == channel_cast'.pc = "done" /\ channel_cast' # channel_cast

\* While broadcast_to_channel is in its loop it changes neither the registry nor
\* the subscriber sets, and it visits the copy taken at the start.
RemovalWaitsForLoopEnd ==
  ChannelCastContinues =>
    /\ UNCHANGED <<connections, channel_subscribers>>
    /\ channel_cast'.attempted \subseteq channel_cast'.snapshot

\* At the return every client of the copy was written to or was not registered
\* when the loop came to it, and the count is the number of writes that succeeded.
SnapshotAttemptedAndCounted ==
  ChannelCastEnds =>
    /\ channel_cast'.attempted \cup channel_cast'.skipped = channel_cast'.snapshot
    /\ channel_cast'.attempted = channel_cast'.written \cup channel_cast'.disconnected
    /\ channel_cast'.sent_count = Cardinality(channel_cast'.written)

\* At the return a client whose write failed is in no subscriber set and not in
\* the registry.
FailedClientsRemoved ==
  ChannelCastEnds =>
    \A c \in channel_cast'.disconnected :
      /\ ~connections'[c].connected
      /\ \A ch \in Channels : c \notin channel_subscribers'[ch]

\* C24: broadcast_to_channel iterates the subscriber set as it was when the
\* broadcast started; a client whose socket write fails is removed from the
\* registry and from all channels, and only after the iteration ends; every
\* other subscriber of the snapshot that is still connected is attempted, and
\* the returned count equals the number of successful writes.
C24_BroadcastToChannel ==
  [][RemovalWaitsForLoopEnd /\ SnapshotAttemptedAndCounted /\ FailedClientsRemoved]_vars

\* What one step of the auto-close pass did: the tickets of its list it came to,
\* and those of them it closed.
SweepStep == sweep' # sweep

SweepExamined ==
  (IF sweep.pc = "sleeping" THEN sweep'.found ELSE SeqRange(sweep.resolved_tickets))
    \ SeqRange(sweep'.resolved_tickets)

SweepClosed == sweep'.closed \ (IF sweep.pc = "sleeping" THEN {} ELSE sweep.closed)

\* The pass reads every RESOLVED ticket of the repository and the time.
SweepReadsResolved ==
  sweep.pc = "sleeping" =>
    /\ sweep'.found = {id \in repo : tickets[id].status = "RESOLVED"}
    /\ sweep'.now = now

StaysResolved(id) == id \in Created /\ tickets[id].status = "RESOLVED"

\* C26: in the running system, under fair scheduling, every ticket that reaches
\* status RESOLVED and is not mutated afterwards eventually reaches status CLOSED:
\* a RESOLVED ticket does not stay RESOLVED for ever.
C26_ResolvedIsEventuallyClosed ==
  \A id \in Ids : StaysResolved(id) ~> ~StaysResolved(id)

\* C27: after a successful DELETE /api/tickets/{id} the ticket is absent from the
\* repository, no queue holds an entry for the id, and the id -> queue index has
\* no row for it, whatever sequence of operations preceded the delete.
C27_DeleteRemovesEverywhere ==
  [][\A id \in Ids :
       Delete(id) =>
         /\ id \notin repo'
         /\ \A q \in QueueType : \A k \in 1..Len(queues'[q]) : queues'[q][k].ticket_id # id
         /\ ticket_queue_map'[id] = None]_vars

\* Every outcome of a release or of a transfer request of agent for ticket id.
ReleaseOrTransferBy(id, agent) ==
  \/ ReleaseForbidden(id, agent)
  \/ \E retriage \in BOOLEAN : Release(id, agent, retriage)
  \/ TransferForbidden(id, agent)
  \/ \E to_agent \in Agents : Transfer(id, agent, to_agent)

\* C28: a release or transfer request of an agent who is not the ticket's
\* assignee is answered 403 and by nothing else; it leaves the ticket, the queue
\* manager and the assignment tracker as they were, creates no triage task and
\* adds no event.
C28_WrongAgentIsRejected ==
  \A id \in repo, agent \in Agents :
    tickets[id].assignee # agent =>
      /\ ENABLED ReleaseForbidden(id, agent)
      /\ ENABLED TransferForbidden(id, agent)
      /\ ~ENABLED (/\ ReleaseOrTransferBy(id, agent)
                   /\ <<tickets, repo, queues, ticket_queue_map, audit_log, assignments,
                        scheduled, inflight>>'
                        # <<tickets, repo, queues, ticket_queue_map, audit_log, assignments,
                            scheduled, inflight>>)
      /\ \A retriage \in BOOLEAN : ReleasePublishes(tickets[id], agent, retriage) = <<>>
      /\ TransferPublishes(tickets[id], agent) = <<>>

\* A ticket held by a1 on the tracker and in ACTIVE: a request of a2 for it is a
\* request of the wrong agent.
C28_Witness ==
  \E id \in repo :
    /\ tickets[id].assignee = "a1"
    /\ id \in assignments["a1"]
    /\ tickets[id].current_queue = ACTIVE

InvalidPriority(r) == r.priority # None /\ r.priority \notin TicketPriority

InvalidCategory(r) == r.category # None /\ r.category \notin TicketCategory

\* C29: when a triage result carries a priority or category string that is not
\* a valid enum value, that field of the ticket keeps its previous value, every
\* other part of the result (reasoning, the other field, suggested assignee,
\* tags) is still applied, and the confidence-based routing still takes place.
C29_InvalidEnumSkipsOnlyItsField ==
  [][\A id \in 1..MaxIngest, r \in ClassifierAnswers :
       (TriageApply(id, r) /\ (InvalidPriority(r) \/ InvalidCategory(r))) =>
         LET t == tickets[id]
             u == tickets'[id]
             target == IF r.confidence # Absent /\ r.confidence >= 80
                         THEN ASSIGNMENT ELSE TRIAGE
         IN /\ InvalidPriority(r) => u.priority = t.priority
            /\ InvalidCategory(r) => u.category = t.category
            /\ r.priority \in TicketPriority => u.priority = r.priority
            /\ r.category \in TicketCategory => u.category = r.category
            /\ u.ai_reasoning.priority = IF r.priority # None THEN r.priority
                                         ELSE t.ai_reasoning.priority
            /\ u.ai_reasoning.category = r.category
            /\ r.confidence # Absent => u.ai_reasoning.confidence = r.confidence
            /\ r.suggested_assignee # None => u.suggested_assignee = r.suggested_assignee
            /\ r.tags # NoTags => \A k \in 1..Len(r.tags) : InSeq(r.tags[k], u.tags)
            /\ (target = ASSIGNMENT /\ r.suggested_assignee # None)
                 => u.assignee = r.suggested_assignee
            /\ (target = ASSIGNMENT /\ r.suggested_assignee = None) => u.status = "ASSIGNED"
            /\ HasEntry(INBOX, id) =>
                 /\ ticket_queue_map'[id] = target
                 /\ \E k \in 1..Len(queues'[target]) : queues'[target][k].ticket_id = id
                 /\ Len(queues'[INBOX]) = Len(queues[INBOX]) - 1
                 /\ Len(audit_log') = Len(audit_log) + 1]_vars

\* The answer with priority URGENT has been applied to the ingested ticket: the
\* priority is the one it had, category, assignee and tag are the answer's, and
\* the ticket went to ASSIGNMENT.
C29_Witness ==
  /\ Len(tickets) = 1
  /\ tickets[1].ai_reasoning.priority = "URGENT"
  /\ tickets[1].priority = "MEDIUM"
  /\ tickets[1].category = "BILLING"
  /\ tickets[1].assignee = "a1"
  /\ InSeq("coding", tickets[1].tags)
  /\ ticket_queue_map[1] = ASSIGNMENT

AiFields(t) == <<t.category, t.priority, t.suggested_assignee, t.ai_reasoning>>

Triaged(id) == id \in Created /\ tickets[id].ai_reasoning # EmptyReasoning

\* C30: for every triage result r (a missing or invalid priority or category and
\* no assignee included), clear_ai_data on an already-triaged ticket followed by
\* applying r yields the same category, priority, suggested_assignee and
\* ai_reasoning as applying r to a freshly created ticket.
C30_ClearThenTriageIsFreshTriage ==
  \A id \in Ids, r \in TriageResults :
    Triaged(id) =>
      AiFields(ApplyFields(clear_ai_data(tickets[id]), r))
        = AiFields(ApplyFields(Ticket_create("MEDIUM", <<>>), r))

\* The last n elements of s, all of s when it has fewer.
LastN(s, n) == SubSeq(s, (IF Len(s) > n THEN Len(s) - n ELSE 0) + 1, Len(s))

\* C31: get_audit_log(ticket_id, limit) returns the last `limit` entries of the
\* audit log (of the entries of ticket_id when one is given), in log order; the
\* result never has more than `limit` entries, for every limit >= 0.
C31_AuditTailWithinLimit ==
  \A id \in Ids \cup {NoTicket}, limit \in 0..MaxLimit :
    /\ Len(get_audit_log(id, limit)) <= limit
    /\ get_audit_log(id, limit)
         = LastN(IF id = NoTicket THEN audit_log ELSE EntriesOf(audit_log, id), limit)

\* C32: after every completed request and every completed triage continuation,
\* a ticket that has an entry in the queue manager has, as its current_queue,
\* the queue that holds the entry.
C32_CurrentQueueIsEntryQueue ==
  \A id \in repo, q \in QueueType :
    HasEntry(q, id) => tickets[id].current_queue = q

\* C33: a triage result applied after the ticket has left the INBOX queue
\* changes neither the ticket's assignee, nor its status, nor the queue
\* manager's queues, index or audit log.
C33_LateResultChangesNothing ==
  [][\A id \in 1..MaxIngest, r \in TriageResults :
       (TriageApply(id, r) /\ ~HasEntry(INBOX, id)) =>
         /\ tickets'[id].assignee = tickets[id].assignee
         /\ tickets'[id].status = tickets[id].status
         /\ UNCHANGED <<queues, ticket_queue_map, audit_log>>]_vars

\* The last move the queue manager logged is the triage task's move of id into
\* TRIAGE, the entry is still there and the ticket is still TRIAGE_PENDING.
RoutedToTriage(id) ==
  /\ audit_log # <<>>
  /\ Last(audit_log).ticket_id = id
  /\ Last(audit_log).from_queue = INBOX
  /\ Last(audit_log).to_queue = TRIAGE
  /\ Last(audit_log).reason.text = "AI Triage Needed (Confidence: "
  /\ HasEntry(TRIAGE, id)
  /\ tickets[id].status = "TRIAGE_PENDING"

\* C34: a ticket that automatic triage routed into the TRIAGE queue is accepted
\* by POST /api/tickets/{id}/triage_complete, which moves its entry on to
\* ASSIGNMENT, or to RESOLUTION when auto_resolve is set.
C34_TriagedTicketCanBeCompleted ==
  \A id \in repo :
    RoutedToTriage(id) =>
      /\ ~ENABLED TriageCompleteRejected(id)
      /\ \A req \in TriageCompleteRequests : ENABLED TriageComplete(id, req)

\* C35: in every reachable state of the queue manager the index and the queues
\* agree: the index maps id to q exactly when q holds an entry of id, so that
\* dequeue and get_queue_position never meet a missing index row.
C35_IndexAgreesWithQueues ==
  \A id \in Ids, q \in QueueType : ticket_queue_map[id] = q <=> HasEntry(q, id)

\* C36: after every completed request the assignment tracker agrees with the
\* tickets: a ticket id is in at most one agent's set, and it is in agent a's
\* set exactly when the ticket is stored and its assignee field is a.
C36_TrackerAgreesWithAssignee ==
  /\ \A a, b \in Agents : a # b => assignments[a] \cap assignments[b] = {}
  /\ \A a \in Agents, id \in Ids :
       id \in assignments[a] <=> (id \in repo /\ tickets[id].assignee = a)

ClaimedBy(a, id) ==
  /\ claiming[a].pc = "done"
  /\ claiming[a].success
  /\ claiming[a].claimed_ticket = id

NoClaimInProgress == \A a \in Agents : claiming[a].pc \in {"idle", "done"}

C38_NoTicketLost ==
  \A id \in repo : tickets[id].status # "CLOSED" => \E q \in QueueType : HasEntry(q, id)

DequeueStep == \E q \in QueueType, pb \in BOOLEAN : Dequeue(q, pb)

InSomeQueue(id) == \E q \in QueueType : HasEntry(q, id)

\* C38 (amended): no request other than POST /api/queues/{name}/dequeue loses a
\* ticket: after it, every stored ticket whose status is not CLOSED and which
\* had an entry in some queue before the request, or was created by it, has an
\* entry in some queue.
C38_OnlyDequeueLosesATicket ==
  [][~DequeueStep =>
       \A id \in repo' :
         (tickets'[id].status # "CLOSED" /\ (id \notin repo \/ InSomeQueue(id)))
           => InSomeQueue(id)']_vars

\* A claimed ticket: the claim request moved its entry to ACTIVE and it is there.
C38_Witness ==
  \E id \in repo :
    /\ tickets[id].status = "IN_PROGRESS"
    /\ HasEntry(ACTIVE, id)
    /\ audit_log # <<>>
    /\ Last(audit_log).ticket_id = id
    /\ Last(audit_log).to_queue = ACTIVE
    /\ Last(audit_log).reason.text = "claimed by agent"

\* C39: in every reachable state of the subscription bus the two indexes
\* agree: client c is in the subscriber set of channel ch exactly when c is
\* registered and ch is in c's subscription set.
C39_BusIndexesAgree ==
  \A c \in Clients, ch \in Channels :
    c \in channel_subscribers[ch]
      <=> (connections[c].connected /\ ch \in connections[c].subscriptions)

\* The step removed exactly one entry of queue q, an entry of ticket id.
RemovesEntryOf(q, id) ==
  /\ Len(queues'[q]) = Len(queues[q]) - 1
  /\ Len(EntriesOf(queues'[q], id)) = Len(EntriesOf(queues[q], id)) - 1

====
